---------------------------- MODULE Spec2Model ----------------------------
(***************************************************************************)
(* A model of the download-and-upload pipeline of the photo bot            *)
(* (src/main.py): the retry engine, the folder cache with the changefolder *)
(* command, and the video pipeline with its memory/disk routing.           *)
(*                                                                         *)
(* Text is modelled as a sequence of one-character strings, so that the    *)
(* substring tests and the lower-casing of the code are computed, not      *)
(* assumed.                                                                *)
(***************************************************************************)
EXTENDS Integers, Sequences, FiniteSets, TLC

VARIABLES
    \* ---- retry_with_backoff, one call of it (SpecRetry)
    rPc,        \* "idle" | "running" | "returned" | "raised"
    rMax,       \* the max_retries of the call
    rAttempt,   \* the loop variable attempt
    rTrace,     \* what the call did so far: invocations of func and sleeps
    rLast,      \* last_exception
    rResult,    \* the value returned or the error raised
    \* ---- the folder cache, the workers and the changefolder command (SpecFolder)
    PARENT_FOLDER_ID,   \* the process-wide root folder id
    parentFile,         \* the content of config/parent_folder_id.txt, NoFile when absent
    folder_cache,       \* sanitized name -> <<folder id, cached time>>
    now,                \* datetime.now(), in units of half an hour
    driveFolders,       \* the folders of the shared drive
    driveNext,          \* the serial number of the next folder the drive creates
    wk,                 \* per pool worker: the queue_file_downloads call it runs
    cmd,                \* the changefolder command in flight on the event loop
    tasksLeft,          \* how many more queue_file_downloads tasks the pool is given
    changesLeft,        \* how many more changefolder commands reach the validation
    sinceChange,        \* the names the last successful changefolder cleared from the
                        \* cache and no check_folder_exists has looked up since
    \* ---- download_video, one call of it (SpecVideo)
    VIDEO_IN_MEMORY,        \* the setting, fixed at start-up
    MAX_FILE_SIZE_BYTES,    \* the setting, fixed at start-up; 0 means no limit
    vd,                     \* the call: where it is, and its locals
    tempFiles,              \* the temporary files on disk
    unlinkFailed,           \* the temporary files whose unlink raised
    vlog,                   \* the running attempt of _download_video: what it saw and did
    \* ---- download_image, one call of it (SpecImage)
    im,                     \* the call: where it is, its arguments and its locals
    ilog,                   \* the running attempt of _download_image: what it did
    up,                     \* the running call of upload: its arguments and what it did
    \* ---- submit_task_with_tracking and the thread pool (SpecPool)
    pool,                   \* EXECUTOR: how many futures are queued, how many running
    task_futures,           \* the tracking list: how many of its futures are not done, how many are
    sub,                    \* the running call of submit_task_with_tracking
    lastDone,               \* what task_done logged last, and for what result
    escaped,                \* an exception has left task_done
    workers,                \* the worker threads EXECUTOR can use
    \* ---- the event loop and the shutdown of EXECUTOR (SpecFront)
    loop,                   \* the event loop: free, or inside a shutdown of EXECUTOR
    executorShutdown,       \* EXECUTOR.shutdown has been called
    msgs,                   \* per message: its queue_file_downloads task and its pipeline tasks
    \* ---- the pure functions called on their own
    sn,                     \* sanitize_folder_name: the name, its result, the result of a second pass
    cls,                    \* is_transient_error: the exception and the answer
    cv,                     \* convert_to_jpeg: the arguments and the triple returned
    \* ---- the storage service
    SERVICE                 \* the Google Drive service object, None before authentication

retryVars == <<rPc, rMax, rAttempt, rTrace, rLast, rResult>>

folderVars == <<PARENT_FOLDER_ID, parentFile, folder_cache, now, driveFolders,
                driveNext, wk, cmd, tasksLeft, changesLeft, sinceChange>>

videoVars == <<VIDEO_IN_MEMORY, MAX_FILE_SIZE_BYTES, vd, tempFiles, unlinkFailed, vlog>>

imageVars == <<im, ilog, up>>

poolVars == <<pool, task_futures, sub, lastDone, escaped, workers>>

frontVars == <<loop, executorShutdown, msgs>>

pureVars == <<sn, cls, cv>>

vars == <<retryVars, folderVars, videoVars, imageVars, poolVars, frontVars, pureVars, SERVICE>>

\* What the actions of one part leave alone.
notRetry == <<folderVars, videoVars, imageVars, poolVars, frontVars, pureVars, SERVICE>>
notFolder == <<retryVars, videoVars, imageVars, poolVars, frontVars, pureVars, SERVICE>>
notVideo == <<retryVars, folderVars, imageVars, poolVars, frontVars, pureVars, SERVICE>>
notImage == <<retryVars, folderVars, videoVars, poolVars, frontVars, pureVars, SERVICE>>
notFront == <<retryVars, folderVars, videoVars, imageVars, poolVars, pureVars, SERVICE>>
notSanitize == <<retryVars, folderVars, videoVars, imageVars, poolVars, frontVars, cls, cv, SERVICE>>
notClassify == <<retryVars, folderVars, videoVars, imageVars, poolVars, frontVars, sn, cv, SERVICE>>
notConvert == <<retryVars, folderVars, videoVars, imageVars, poolVars, frontVars, sn, cls, SERVICE>>
notPool == <<retryVars, folderVars, videoVars, imageVars, frontVars, pureVars, SERVICE>>

None == "None"

\* config/parent_folder_id.txt has not been written: no id to read from it.
NoFile == <<>>

(***************************************************************************)
(* Bounds of the model.                                                    *)
(***************************************************************************)
\* The largest max_retries a modelled call of retry_with_backoff is given.
MaxRetriesArg == 4
\* The clock stops after MaxTime units.
MaxTime == 2
\* The pool is given at most MaxTasks queue_file_downloads tasks.
MaxTasks == 3
\* At most MaxChanges changefolder commands get as far as the validation.
MaxChanges == 1
\* The drive creates at most MaxCreates folders.
MaxCreates == 2
\* The pool holds at most MaxLive futures that are not done.
MaxLive == 51

(***************************************************************************)
(* Text.                                                                   *)
(***************************************************************************)
UpperChars == <<"A", "B", "C", "D", "E", "F", "G", "H", "I", "J", "K", "L", "M",
                "N", "O", "P", "Q", "R", "S", "T", "U", "V", "W", "X", "Y", "Z">>
LowerChars == <<"a", "b", "c", "d", "e", "f", "g", "h", "i", "j", "k", "l", "m",
                "n", "o", "p", "q", "r", "s", "t", "u", "v", "w", "x", "y", "z">>

\* str.lower() on one character.
LowerChar(c) ==
    IF \E i \in 1..Len(UpperChars) : UpperChars[i] = c
    THEN LowerChars[CHOOSE i \in 1..Len(UpperChars) : UpperChars[i] = c]
    ELSE c

\* str.lower()
Lower(s) == [i \in 1..Len(s) |-> LowerChar(s[i])]

\* needle in hay (Python's substring test)
Contains(hay, needle) ==
    \E i \in 0..(Len(hay) - Len(needle)) :
        \A j \in 1..Len(needle) : hay[i + j] = needle[j]

(***************************************************************************)
(* More text: str.upper, str.replace, str.split(".")[-1] and the file name  *)
(* patterns.                                                               *)
(***************************************************************************)
\* str.upper() on one character.
UpperChar(c) ==
    IF \E i \in 1..Len(LowerChars) : LowerChars[i] = c
    THEN UpperChars[CHOOSE i \in 1..Len(LowerChars) : LowerChars[i] = c]
    ELSE c

\* str.upper()
Upper(s) == [i \in 1..Len(s) |-> UpperChar(s[i])]

\* t is in s at index i
StartsAt(s, i, t) ==
    /\ i + Len(t) - 1 <= Len(s)
    /\ \A j \in 1..Len(t) : s[i + j - 1] = t[j]

\* s.replace(old, new) from index i on: the occurrences of old, left to
\* right and not overlapping, become new.
RECURSIVE ReplaceFrom(_, _, _, _)
ReplaceFrom(s, i, old, new) ==
    IF i > Len(s) THEN <<>>
    ELSE IF StartsAt(s, i, old) THEN new \o ReplaceFrom(s, i + Len(old), old, new)
    ELSE <<s[i]>> \o ReplaceFrom(s, i + 1, old, new)

\* s.replace(old, new)
Replace(s, old, new) == ReplaceFrom(s, 1, old, new)

\* s.split(sep)[-1]: what follows the last sep, all of s when it has none
SplitLast(s, sep) ==
    LET at == {i \in 1..Len(s) : s[i] = sep}
    IN  IF at = {} THEN s
        ELSE LET last == CHOOSE i \in at : \A j \in at : j <= i
             IN  SubSeq(s, last + 1, Len(s))

Heic == <<"h", "e", "i", "c">>
Heif == <<"h", "e", "i", "f">>
Jpeg == <<"j", "p", "e", "g">>
Jpg  == <<"j", "p", "g">>

\* The alternatives of IMAGE_NAME_PATTERN and of VIDEO_NAME_PATTERN, in the
\* order the patterns try them
ImageNameExtensions == << <<"p", "n", "g">>, Jpg, Jpeg, Heic, Heif >>
VideoNameExtensions ==
    << <<"m", "p", "4">>, <<"m", "o", "v">>, <<"a", "v", "i">>, <<"m", "k", "v">> >>

\* \w on the characters of the model
IsWordChar(c) ==
    \/ \E i \in 1..Len(LowerChars) : LowerChars[i] = c \/ UpperChars[i] = c
    \/ c \in {"0", "1", "2", "3", "4", "5", "6", "7", "8", "9", "_"}

\* The end of the run of word characters that begins at i
RECURSIVE WordRunEnd(_, _)
WordRunEnd(s, i) ==
    IF i < Len(s) /\ IsWordChar(s[i + 1]) THEN WordRunEnd(s, i + 1) ELSE i

\* The match of ([\w]+\.(?:alternatives)) that begins at i, <<>> when there
\* is none: the run of word characters, a dot and the first alternative
\* that is there.
MatchAt(s, i, alternatives) ==
    IF ~IsWordChar(s[i]) THEN <<>>
    ELSE LET e    == WordRunEnd(s, i)
             fits == {k \in 1..Len(alternatives) : StartsAt(s, e + 2, alternatives[k])}
         IN  IF e < Len(s) /\ s[e + 1] = "." /\ fits # {}
             THEN LET k == CHOOSE a \in fits : \A b \in fits : a <= b
                  IN  SubSeq(s, i, e + 1 + Len(alternatives[k]))
             ELSE <<>>

\* find_file_name: pattern.findall(url)[0], None when nothing matches (the
\* two replace calls find no space and put a quote for a quote).
FindFileName(alternatives, url) ==
    LET starts == {i \in 1..Len(url) : MatchAt(url, i, alternatives) # <<>>}
    IN  IF starts = {} THEN None
        ELSE MatchAt(url, CHOOSE i \in starts : \A j \in starts : i <= j, alternatives)

(***************************************************************************)
(* Errors.  An exception is its type name, its text (str(exception)) and   *)
(* the status code of its .response attribute, NoStatus when it has none.  *)
(***************************************************************************)
NoStatus == -1

TransientTerms ==
    { <<"c", "o", "n", "n", "e", "c", "t", "i", "o", "n">>,
      <<"t", "i", "m", "e", "o", "u", "t">>,
      <<"n", "e", "t", "w", "o", "r", "k">>,
      <<"t", "e", "m", "p", "o", "r", "a", "r", "y">> }

RetryableCodes ==
    { <<"4", "2", "9">>, <<"5", "0", "0">>, <<"5", "0", "2">>,
      <<"5", "0", "3">>, <<"5", "0", "4">> }

GoogleApiCodes == { <<"4", "2", "9">>, <<"5", "0", "0">>, <<"5", "0", "3">> }

IsTransientError_caseSensitive(exception) ==
    LET error_str  == exception.msg
        error_type == exception.type
    IN  \/ \E term \in TransientTerms : Contains(error_str, term)
        \/ /\ Contains(error_str, <<"h", "t", "t", "p">>)
           /\ \E code \in RetryableCodes : Contains(error_str, code)
        \/ /\ exception.status # NoStatus
           /\ (exception.status >= 500 \/ exception.status = 429)
        \/ /\ \/ Contains(error_type, <<"g", "o", "o", "g", "l", "e", "a", "p",
                                        "i", "c", "l", "i", "e", "n", "t">>)
              \/ Contains(error_type, <<"H", "t", "t", "p", "E", "r", "r", "o", "r">>)
           /\ \E code \in GoogleApiCodes : Contains(error_str, code)

IsTransientError_googleCodes(exception) ==
    LET error_str  == Lower(exception.msg)
        error_type == exception.type
    IN  \/ \E term \in TransientTerms : Contains(error_str, term)
        \/ /\ Contains(error_str, <<"h", "t", "t", "p">>)
           /\ \E code \in GoogleApiCodes : Contains(error_str, code)
        \/ /\ exception.status # NoStatus
           /\ (exception.status >= 500 \/ exception.status = 429)
        \/ /\ \/ Contains(error_type, <<"g", "o", "o", "g", "l", "e", "a", "p",
                                        "i", "c", "l", "i", "e", "n", "t">>)
              \/ Contains(error_type, <<"H", "t", "t", "p", "E", "r", "r", "o", "r">>)
           /\ \E code \in GoogleApiCodes : Contains(error_str, code)

IsTransientError_listedStatuses(exception) ==
    LET error_str  == Lower(exception.msg)
        error_type == exception.type
    IN  \/ \E term \in TransientTerms : Contains(error_str, term)
        \/ /\ Contains(error_str, <<"h", "t", "t", "p">>)
           /\ \E code \in RetryableCodes : Contains(error_str, code)
        \/ /\ exception.status # NoStatus
           /\ exception.status \in {429, 500, 502, 503, 504}
        \/ /\ \/ Contains(error_type, <<"g", "o", "o", "g", "l", "e", "a", "p",
                                        "i", "c", "l", "i", "e", "n", "t">>)
              \/ Contains(error_type, <<"H", "t", "t", "p", "E", "r", "r", "o", "r">>)
           /\ \E code \in GoogleApiCodes : Contains(error_str, code)

\* is_transient_error
IsTransientError(exception) ==
    LET error_str  == Lower(exception.msg)
        error_type == exception.type
    IN  \/ \E term \in TransientTerms : Contains(error_str, term)
        \/ /\ Contains(error_str, <<"h", "t", "t", "p">>)
           /\ \E code \in RetryableCodes : Contains(error_str, code)
        \/ /\ exception.status # NoStatus
           /\ (exception.status >= 500 \/ exception.status = 429)
        \/ /\ \/ Contains(error_type, <<"g", "o", "o", "g", "l", "e", "a", "p",
                                        "i", "c", "l", "i", "e", "n", "t">>)
              \/ Contains(error_type, <<"H", "t", "t", "p", "E", "r", "r", "o", "r">>)
           /\ \E code \in GoogleApiCodes : Contains(error_str, code)

\* requests' ConnectionError("Connection reset")
ErrConnReset ==
    [type   |-> <<"C", "o", "n", "n", "e", "c", "t", "i", "o", "n", "E", "r", "r", "o", "r">>,
     msg    |-> <<"C", "o", "n", "n", "e", "c", "t", "i", "o", "n", " ", "r", "e", "s", "e", "t">>,
     status |-> NoStatus]

\* googleapiclient's HttpError for a 503 of the backend
ErrApi503 ==
    [type   |-> <<"H", "t", "t", "p", "E", "r", "r", "o", "r">>,
     msg    |-> <<"<", "H", "t", "t", "p", "E", "r", "r", "o", "r", " ", "5", "0", "3", " ",
                  "B", "a", "c", "k", "e", "n", "d", " ", "E", "r", "r", "o", "r", ">">>,
     status |-> NoStatus]

\* an error that carries response.status_code = 502 and a text matching no rule
ErrBadGateway ==
    [type   |-> <<"R", "e", "q", "u", "e", "s", "t", "F", "a", "i", "l", "e", "d">>,
     msg    |-> <<"B", "a", "d", " ", "G", "a", "t", "e", "w", "a", "y">>,
     status |-> 502]

\* googleapiclient's HttpError for a 404 of the backend
ErrApi404 ==
    [type   |-> <<"H", "t", "t", "p", "E", "r", "r", "o", "r">>,
     msg    |-> <<"<", "H", "t", "t", "p", "E", "r", "r", "o", "r", " ", "4", "0", "4", " ",
                  "N", "o", "t", " ", "F", "o", "u", "n", "d", ">">>,
     status |-> NoStatus]

\* ValueError("bad value")
ErrValue ==
    [type   |-> <<"V", "a", "l", "u", "e", "E", "r", "r", "o", "r">>,
     msg    |-> <<"b", "a", "d", " ", "v", "a", "l", "u", "e">>,
     status |-> NoStatus]

\* The URL of the attachment
VideoUrl == <<"u", "/", "v", ".", "m", "p", "4">>

StatusText(status) ==
    CASE status = 200 -> <<"2", "0", "0">>
      [] status = 404 -> <<"4", "0", "4">>
      [] status = 429 -> <<"4", "2", "9">>
      [] status = 503 -> <<"5", "0", "3">>

\* Exception(f"HTTP {response.status_code} error downloading {url}")
ErrHttpFor(status, url) ==
    [type   |-> <<"E", "x", "c", "e", "p", "t", "i", "o", "n">>,
     msg    |-> <<"H", "T", "T", "P", " ">> \o StatusText(status)
                  \o <<" ", "e", "r", "r", "o", "r", " ", "d", "o", "w", "n", "l", "o",
                       "a", "d", "i", "n", "g", " ">> \o url,
     status |-> NoStatus]

ErrHttp(status) == ErrHttpFor(status, VideoUrl)

\* The errors the modelled operations raise.
ErrorSamples ==
    {ErrConnReset, ErrApi503, ErrBadGateway, ErrApi404, ErrValue, ErrHttp(404), ErrHttp(503)}

\* The values MAX_FILE_SIZE_BYTES may be configured to
FileSizeLimits == {0, 18}

\* The URLs of image attachments; the second has the digits 503 in its path.
ImageUrls ==
    { <<"u", "/", "p", ".", "h", "e", "i", "c">>,
      <<"u", "/", "1", "5", "0", "3", "/", "p", ".", "h", "e", "i", "c">>,
      <<"u", "/", "p", ".", "h", "e", "i", "f">>,
      <<"u", "/", "p", ".", "j", "p", "g">> }

\* The decimal text of a natural number
RECURSIVE Digits(_)
Digits(n) ==
    LET last == <<"0", "1", "2", "3", "4", "5", "6", "7", "8", "9">>[(n % 10) + 1]
    IN  IF n < 10 THEN <<last>> ELSE Digits(n \div 10) \o <<last>>

\* The payload sizes of the model
PayloadSizes == {9, 20}

\* Exception(f"File size {len(image_data)} exceeds limit {MAX_FILE_SIZE_BYTES}")
ErrFileSize(size, limit) ==
    [type   |-> <<"E", "x", "c", "e", "p", "t", "i", "o", "n">>,
     msg    |-> <<"F", "i", "l", "e", " ", "s", "i", "z", "e", " ">> \o Digits(size)
                  \o <<" ", "e", "x", "c", "e", "e", "d", "s", " ", "l", "i", "m", "i", "t", " ">> \o Digits(limit),
     status |-> NoStatus]

\* Exception("Google Drive service not authenticated")
ErrNotAuthenticated ==
    [type   |-> <<"E", "x", "c", "e", "p", "t", "i", "o", "n">>,
     msg    |-> <<"G", "o", "o", "g", "l", "e", " ", "D", "r", "i", "v", "e", " ", "s", "e", "r", "v", "i", "c", "e", " ", "n", "o", "t", " ", "a", "u", "t", "h", "e", "n", "t", "i", "c", "a", "t", "e", "d">>,
     status |-> NoStatus]

\* The errors of the image pipeline
ImageErrors ==
    {ErrHttpFor(status, url) : status \in {404, 429, 503}, url \in ImageUrls}
        \cup {ErrFileSize(size, limit) : size \in PayloadSizes, limit \in FileSizeLimits}
        \cup {ErrNotAuthenticated}

\* is_transient_error on the errors of the model, computed once.
TransientTable == [e \in ErrorSamples \cup ImageErrors |-> IsTransientError(e)]

Transient(e) == TransientTable[e]

(***************************************************************************)
(* exponential_backoff_sleep: the delay base_delay * multiplier ** attempt *)
(* as a fraction <<numerator, denominator>>; RETRY_BACKOFF_MULTIPLIER is   *)
(* 2.5 = MultNum / MultDen, base_delay is 1.0.                             *)
(***************************************************************************)
MultNum == 5
MultDen == 2
BaseDelay == 1

RECURSIVE Pow(_, _)
Pow(b, n) == IF n = 0 THEN 1 ELSE b * Pow(b, n - 1)

\* A delay that does not grow with the attempt.
BackoffDelay_flat(attempt) == <<BaseDelay, 1>>

BackoffDelay(attempt) == <<BaseDelay * Pow(MultNum, attempt), Pow(MultDen, attempt)>>

(***************************************************************************)
(* retry_with_backoff.  RetryDecision is what one pass of the loop body    *)
(* does with the outcome of func: "return" the value, "raise" a permanent  *)
(* error at once, "sleep" and go round again, or "last" (the final         *)
(* attempt failed transiently: no sleep, last_exception is raised after    *)
(* the loop).                                                              *)
(***************************************************************************)
\* A loop that retries permanent errors as well.
RetryDecision_retryAll(out, attempt, max_retries) ==
    IF out.kind = "ok" THEN "return"
    ELSE IF attempt < max_retries - 1 THEN "sleep"
    ELSE "last"

\* A loop that sleeps after the final attempt too.
RetryDecision_sleepLast(out, attempt, max_retries) ==
    IF out.kind = "ok" THEN "return"
    ELSE IF ~Transient(out.err) THEN "raise"
    ELSE IF attempt < max_retries THEN "sleep"
    ELSE "last"

RetryDecision(out, attempt, max_retries) ==
    IF out.kind = "ok" THEN "return"
    ELSE IF ~Transient(out.err) THEN "raise"
    ELSE IF attempt < max_retries - 1 THEN "sleep"
    ELSE "last"

\* The values the modelled operation returns.
Values == {"v1", "v2"}

\* What one invocation of func does: it returns a value or raises an error.
Outcomes ==
    [kind : {"ok"}, val : Values, err : {None}]
        \cup [kind : {"raise"}, val : {None}, err : ErrorSamples]

CallEvent(n, out) == [ev |-> "call", n |-> n, out |-> out, delay |-> None]
SleepEvent(a) == [ev |-> "sleep", n |-> a, out |-> None, delay |-> BackoffDelay(a)]

RetryInit ==
    /\ rPc = "idle"
    /\ rMax = 0
    /\ rAttempt = 0
    /\ rTrace = <<>>
    /\ rLast = None
    /\ rResult = None

\* retry_with_backoff is called with max_retries = m; range(0) is empty, so
\* with m = 0 the loop body never runs and None is returned.
RetryEnter(m) ==
    /\ rPc = "idle"
    /\ rMax' = m
    /\ rAttempt' = 0
    /\ rTrace' = <<>>
    /\ rLast' = None
    /\ IF m = 0
       THEN /\ rPc' = "returned"
            /\ rResult' = [kind |-> "return", val |-> None, n |-> 0]
       ELSE /\ rPc' = "running"
            /\ rResult' = None
    /\ UNCHANGED notRetry

\* One pass of the loop: func is invoked and does `out`.
RetryPass(out) ==
    /\ rPc = "running"
    /\ LET n    == rAttempt + 1
           d    == RetryDecision(out, rAttempt, rMax)
           call == Append(rTrace, CallEvent(n, out))
           exc  == [e |-> out.err, n |-> n]
       IN  /\ rAttempt' = n
           /\ rLast' = IF out.kind = "raise" THEN exc ELSE rLast
           /\ CASE d = "return" ->
                     /\ rTrace' = call
                     /\ rPc' = "returned"
                     /\ rResult' = [kind |-> "return", val |-> out.val, n |-> n]
                [] d = "raise" ->
                     /\ rTrace' = call
                     /\ rPc' = "raised"
                     /\ rResult' = [kind |-> "raise", val |-> exc, n |-> n]
                [] d = "sleep" ->
                     /\ rTrace' = Append(call, SleepEvent(rAttempt))
                     /\ rPc' = "running"
                     /\ rResult' = None
                [] OTHER ->
                     \* the loop is over: raise last_exception
                     /\ rTrace' = call
                     /\ rPc' = "raised"
                     /\ rResult' = [kind |-> "raise", val |-> exc, n |-> n]
    /\ UNCHANGED rMax
    /\ UNCHANGED notRetry

RetryNext ==
    \/ \E m \in 0..MaxRetriesArg : RetryEnter(m)
    \/ \E out \in Outcomes : RetryPass(out)


(***************************************************************************)
(* sanitize_folder_name                                                    *)
(***************************************************************************)
\* SANITIZE_BAD_CHARS_RE: [<>:"/\\|?*]
BadChars == {"<", ">", ":", "\"", "/", "\\", "|", "?", "*"}

Unnamed == <<"u", "n", "n", "a", "m", "e", "d">>

\* name[:255]
NAME_MAX_LEN == 255

ReplaceBadChars_slashes(s) == [i \in 1..Len(s) |-> IF s[i] \in {"/", "\\"} THEN "_" ELSE s[i]]

\* SANITIZE_BAD_CHARS_RE.sub("_", name)
ReplaceBadChars(s) == [i \in 1..Len(s) |-> IF s[i] \in BadChars THEN "_" ELSE s[i]]

\* SANITIZE_PATH_TRAVERSAL_RE.sub("_", name): each maximal run of two or more
\* dots becomes one underscore.  The first dot of such a run becomes the
\* underscore and the dots that follow a dot go.
InDotRun(s, i) ==
    /\ s[i] = "."
    /\ \/ i > 1 /\ s[i - 1] = "."
       \/ i < Len(s) /\ s[i + 1] = "."

Gone == "gone"
NotGone(c) == c # Gone

CollapseDotRuns_perDot(s) == <<>> \o [i \in 1..Len(s) |-> IF InDotRun(s, i) THEN "_" ELSE s[i]]

CollapseDotRuns(s) ==
    SelectSeq([i \in 1..Len(s) |->
                  IF ~InDotRun(s, i) THEN s[i]
                  ELSE IF i > 1 /\ s[i - 1] = "." THEN Gone ELSE "_"],
              NotGone)

\* name.strip(". ")
RECURSIVE StripLeft(_)
StripLeft(s) ==
    IF Len(s) > 0 /\ s[1] \in {".", " "} THEN StripLeft(Tail(s)) ELSE s

RECURSIVE StripRight(_)
StripRight(s) ==
    IF Len(s) > 0 /\ s[Len(s)] \in {".", " "}
    THEN StripRight(SubSeq(s, 1, Len(s) - 1))
    ELSE s

Strip(s) == StripRight(StripLeft(s))

Truncate(s, n) == IF Len(s) > n THEN SubSeq(s, 1, n) ELSE s

\* sanitize_folder_name; None and "" are the falsy names.
SanitizeFolderName(name) ==
    IF name = None \/ name = <<>> THEN Unnamed
    ELSE LET cut == Truncate(Strip(CollapseDotRuns(ReplaceBadChars(name))), NAME_MAX_LEN)
         IN  IF cut = <<>> THEN Unnamed ELSE cut

(***************************************************************************)
(* The folder cache, check_folder_exists and create_folder as run by pool  *)
(* workers inside queue_file_downloads, and the changefolder command run   *)
(* by the event loop.  A `with cache_lock:` block holds no blocking call,  *)
(* so each is one atomic step; the remote calls made outside the lock are  *)
(* steps of their own, and other threads run between them.                 *)
(***************************************************************************)
\* CACHE_TTL = timedelta(hours=1), in units of half an hour
CACHE_TTL == 2

\* MAX_RETRIES, at its default
MAX_RETRIES == 3

\* The workers of EXECUTOR that the model follows.
Workers == {"w1", "w2"}

\* The folder ids of the drive that can serve as root, and PARENT_FOLDER_ID
\* as configured at start.
RootA == <<"A">>
RootB == <<"B">>
DriveRoots == {RootA, RootB}

\* The attachments of a message none of which is an image or a video
PlainAttachments == << <<"u", "/", "n", ".", "t", "x", "t">> >>

\* The thread names handed to queue_file_downloads.
ThreadNames == { <<"t">>, <<".", "t">>, <<"t", " ">> }

\* The ids a caller gives the changefolder command: two roots of the drive,
\* a well-formed id of no folder, an ill-formed id and the empty id.
CandidateIds == {RootA, RootB, <<"Z", "_", "9">>, <<"A", "/">>, <<>>}

\* Who calls the command: a guild Member with or without the role, a user whose
\* Member is fetched from the guild, or a user outside a guild.
Callers == {"member_with_role", "member_without_role", "fetched_with_role", "no_guild"}

\* FOLDER_ID_PATTERN.fullmatch: ^[a-zA-Z0-9_-]+$
IdChars ==
    {UpperChars[i] : i \in 1..Len(UpperChars)} \cup {LowerChars[i] : i \in 1..Len(LowerChars)}
        \cup {"0", "1", "2", "3", "4", "5", "6", "7", "8", "9", "_", "-"}

FolderIdFormatOk(id) == Len(id) >= 1 /\ \A i \in 1..Len(id) : id[i] \in IdChars

\* A folder of the drive: its id is the serial number the drive gave it
\* together with the parent it was created under.
Folder(n, parent, name, by) == [id |-> <<n, parent>>, parent |-> parent, name |-> name, by |-> by]

\* The folders that may exist before the process starts.
PreFolders == {Folder(1, RootA, <<"t">>, "pre"), Folder(2, RootB, <<"t">>, "pre")}

EmptyCache == <<>>

\* An insert that starts the dictionary afresh.
CachePut_alone(c, k, v) == [x \in {k} |-> v]

\* folder_cache[k] = v
CachePut(c, k, v) == [x \in (DOMAIN c) \cup {k} |-> IF x = k THEN v ELSE c[x]]
CacheDel(c, k) == [x \in (DOMAIN c) \ {k} |-> c[x]]

\* An entry that is still served at the age of exactly the TTL.
CacheLive_inclusive(entry, t) == t - entry[2] <= CACHE_TTL

\* An entry that expires one unit early.
CacheLive_early(entry, t) == t - entry[2] < CACHE_TTL - 1

\* datetime.now() - cached_time < CACHE_TTL
CacheLive(entry, t) == t - entry[2] < CACHE_TTL

\* Python's None where the value is otherwise a sequence: no folder id, no
\* name, no cache entry.
NoId == <<>>

\* A worker that runs nothing.
WorkerIdle ==
    [pc          |-> "idle",
     thread_name |-> NoId,     \* queue_file_downloads' sanitized thread_name
     folder_name |-> NoId,     \* the sanitized name inside check_folder_exists / create_folder
     attempt     |-> 0,        \* the attempt of the retry loop around the remote call
     found       |-> NoId,     \* the id a remote call returned, not yet cached
     parent      |-> NoId,     \* folder_metadata["parents"][0] of create_folder
     folder_id   |-> NoId,     \* queue_file_downloads' folder_id
     hit         |-> FALSE,    \* check_folder_exists served folder_id from the cache
     expired     |-> NoId,     \* the expired entry check_folder_exists deleted
     queries     |-> 0,        \* check_folder_exists: its remote list calls so far
     qfailed     |-> FALSE,    \* check_folder_exists: whether one of them raised
     sawMiss     |-> FALSE,    \* a remote list call succeeded and found no folder
     created     |-> FALSE,    \* a remote create call of this task succeeded
     attachments |-> <<>>,     \* the URLs of message.attachments
     dispatched  |-> <<>>]     \* the pipeline tasks the last call submitted

CmdIdle == [pc |-> "idle", id |-> NoId, caller |-> None]

FolderInit ==
    /\ PARENT_FOLDER_ID = RootA
    /\ parentFile = NoFile
    /\ folder_cache = EmptyCache
    /\ now = 0
    /\ driveFolders \in SUBSET PreFolders
    /\ driveNext = 3
    /\ wk = [w \in Workers |-> WorkerIdle]
    /\ cmd = CmdIdle
    /\ tasksLeft = MaxTasks
    /\ changesLeft = MaxChanges
    /\ sinceChange = {}

\* What one remote call of the storage API does: it answers, or raises a
\* transient or a permanent error.
ApiOutcomes ==
    [kind : {"ok"}, val : {None}, err : {None}]
        \cup [kind : {"raise"}, val : {None}, err : {ErrApi503, ErrApi404}]

\* queue_file_downloads is picked up by worker w (its callers pass no folder
\* id): the thread name is sanitized and check_folder_exists is entered, up to
\* the end of its first block under cache_lock: a live entry is returned, an
\* expired one is deleted.
QfdStart(w, raw, attachments) ==
    /\ wk[w].pc = "idle"
    /\ tasksLeft > 0
    /\ tasksLeft' = tasksLeft - 1
    /\ LET thread_name == SanitizeFolderName(raw)
           name        == SanitizeFolderName(thread_name)
           begun       == [WorkerIdle EXCEPT !.thread_name = thread_name,
                                             !.folder_name = name,
                                             !.attachments = attachments]
       IN  /\ IF name \in DOMAIN folder_cache
              THEN IF CacheLive(folder_cache[name], now)
                   THEN /\ wk' = [wk EXCEPT ![w] =
                                     [begun EXCEPT !.pc = "submit",
                                                   !.hit = TRUE,
                                                   !.folder_id = folder_cache[name][1]]]
                        /\ UNCHANGED folder_cache
                   ELSE /\ wk' = [wk EXCEPT ![w] =
                                     [begun EXCEPT !.pc = "cfe_query",
                                                   !.expired = folder_cache[name]]]
                        /\ folder_cache' = CacheDel(folder_cache, name)
              ELSE /\ wk' = [wk EXCEPT ![w] = [begun EXCEPT !.pc = "cfe_query"]]
                   /\ UNCHANGED folder_cache
           /\ sinceChange' = sinceChange \ {name}
    /\ UNCHANGED <<PARENT_FOLDER_ID, parentFile, now, driveFolders, driveNext, cmd,
                   changesLeft>>
    /\ UNCHANGED notFolder

\* check_folder_exists, one attempt of _search_folder inside retry_with_backoff:
\* the query names PARENT_FOLDER_ID as it is when the attempt is made.  A
\* failure that ends the retry loop is caught and None is returned, as when no
\* folder is found and as when there is no service object;
\* queue_file_downloads then calls create_folder.
CfeQuery(w, out) ==
    /\ wk[w].pc = "cfe_query"
    /\ LET name    == wk[w].folder_name
           matches == {f \in driveFolders : f.parent = PARENT_FOLDER_ID /\ f.name = name}
           d       == RetryDecision(out, wk[w].attempt, MAX_RETRIES)
       IN  CASE SERVICE = None ->
                    wk' = [wk EXCEPT ![w].pc = "cf_begin"]
              [] d = "return" /\ matches # {} ->
                    \E f \in matches :
                        wk' = [wk EXCEPT ![w].pc = "cfe_insert",
                                         ![w].attempt = 0,
                                         ![w].found = f.id,
                                         ![w].queries = @ + 1]
              [] d = "return" /\ matches = {} ->
                    wk' = [wk EXCEPT ![w].pc = "cf_begin",
                                     ![w].attempt = 0,
                                     ![w].sawMiss = TRUE,
                                     ![w].queries = 0,
                                     ![w].qfailed = FALSE]
              [] d = "sleep" ->
                    wk' = [wk EXCEPT ![w].attempt = @ + 1,
                                     ![w].qfailed = TRUE,
                                     ![w].queries = @ + 1]
              [] OTHER ->
                    wk' = [wk EXCEPT ![w].pc = "cf_begin",
                                     ![w].attempt = 0,
                                     ![w].queries = 0,
                                     ![w].qfailed = FALSE]
    /\ UNCHANGED <<PARENT_FOLDER_ID, parentFile, folder_cache, now, driveFolders,
                   driveNext, cmd, tasksLeft, changesLeft, sinceChange>>
    /\ UNCHANGED notFolder

\* check_folder_exists, the second block under cache_lock: the folder found is
\* cached with the current time and returned to queue_file_downloads.
CfeInsert(w) ==
    /\ wk[w].pc = "cfe_insert"
    /\ folder_cache' = CachePut(folder_cache, wk[w].folder_name, <<wk[w].found, now>>)
    /\ wk' = [wk EXCEPT ![w].pc = "submit",
                        ![w].folder_id = wk[w].found,
                        ![w].found = NoId,
                        ![w].queries = 0,
                        ![w].qfailed = FALSE]
    /\ UNCHANGED <<PARENT_FOLDER_ID, parentFile, now, driveFolders, driveNext, cmd,
                   tasksLeft, changesLeft, sinceChange>>
    /\ UNCHANGED notFolder

\* create_folder up to the remote call: the name is sanitized and the metadata
\* built, with PARENT_FOLDER_ID as it is now.  Without a service object the
\* exception raised is caught and None is returned.
CfBegin(w) ==
    /\ wk[w].pc = "cf_begin"
    /\ wk' = IF SERVICE = None
             THEN [wk EXCEPT ![w].pc = "submit",
                             ![w].folder_name = SanitizeFolderName(wk[w].thread_name)]
             ELSE [wk EXCEPT ![w].pc = "cf_create",
                             ![w].folder_name = SanitizeFolderName(wk[w].thread_name),
                             ![w].parent = PARENT_FOLDER_ID]
    /\ UNCHANGED <<PARENT_FOLDER_ID, parentFile, folder_cache, now, driveFolders,
                   driveNext, cmd, tasksLeft, changesLeft, sinceChange>>
    /\ UNCHANGED notFolder

\* create_folder, one attempt of _create_folder inside retry_with_backoff.  A
\* failure that ends the retry loop is caught and None is returned.
CfCreate(w, out) ==
    /\ wk[w].pc = "cf_create"
    /\ out.kind = "ok" => driveNext < 3 + MaxCreates
    /\ LET d == RetryDecision(out, wk[w].attempt, MAX_RETRIES)
           f == Folder(driveNext, wk[w].parent, wk[w].folder_name, "bot")
       IN  CASE d = "return" ->
                    /\ driveFolders' = driveFolders \cup {f}
                    /\ driveNext' = driveNext + 1
                    /\ wk' = [wk EXCEPT ![w].pc = "cf_insert",
                                        ![w].attempt = 0,
                                        ![w].found = f.id,
                                        ![w].created = TRUE]
              [] d = "sleep" ->
                    /\ wk' = [wk EXCEPT ![w].attempt = @ + 1]
                    /\ UNCHANGED <<driveFolders, driveNext>>
              [] OTHER ->
                    /\ wk' = [wk EXCEPT ![w].pc = "submit", ![w].attempt = 0]
                    /\ UNCHANGED <<driveFolders, driveNext>>
    /\ UNCHANGED <<PARENT_FOLDER_ID, parentFile, folder_cache, now, cmd, tasksLeft, changesLeft, sinceChange>>
    /\ UNCHANGED notFolder

\* create_folder, the block under cache_lock: the new folder is cached.
CfInsert(w) ==
    /\ wk[w].pc = "cf_insert"
    /\ folder_cache' = CachePut(folder_cache, wk[w].folder_name, <<wk[w].found, now>>)
    /\ wk' = [wk EXCEPT ![w].pc = "submit",
                        ![w].folder_id = wk[w].found,
                        ![w].found = NoId]
    /\ UNCHANGED <<PARENT_FOLDER_ID, parentFile, now, driveFolders, driveNext, cmd,
                   tasksLeft, changesLeft, sinceChange>>
    /\ UNCHANGED notFolder

\* A test that takes every folder id for good.
Missing_never(folder_id) == FALSE

\* not folder_id
Missing(folder_id) == folder_id = NoId

\* any(ext in url_lower for ext in IMAGE_EXTENSIONS), and for VIDEO_EXTENSIONS;
\* the two tuples are the alternatives of the name patterns with a dot before.
HasExtension(url_lower, extensions) ==
    \E k \in 1..Len(extensions) : Contains(url_lower, <<".">> \o extensions[k])

\* The body of the loop over the attachments, for the attachment at index i:
\* the tasks it submits, one or none.
DispatchOne(url, i, folder_id, thread_name) ==
    LET url_lower == Lower(url)
        task(func, file_name) ==
            [func |-> func, url |-> url, file_name |-> file_name,
             extension |-> SplitLast(file_name, "."), folder_id |-> folder_id,
             thread_name |-> thread_name, index |-> i]
    IN  IF HasExtension(url_lower, ImageNameExtensions)
        THEN LET file_name == FindFileName(ImageNameExtensions, url_lower)
             IN  IF file_name = None THEN <<>> ELSE <<task("download_image", file_name)>>
        ELSE IF HasExtension(url_lower, VideoNameExtensions)
        THEN LET file_name == FindFileName(VideoNameExtensions, url_lower)
             IN  IF file_name = None THEN <<>> ELSE <<task("download_video", file_name)>>
        ELSE <<>>

\* for attachment in attachments: the tasks submitted from index i on
RECURSIVE Dispatch(_, _, _, _)
Dispatch(attachments, i, folder_id, thread_name) ==
    IF i > Len(attachments) THEN <<>>
    ELSE DispatchOne(attachments[i], i, folder_id, thread_name)
             \o Dispatch(attachments, i + 1, folder_id, thread_name)

\* queue_file_downloads after the folder id is settled: without one it
\* returns, with one it submits a pipeline task per recognised attachment.
\* The worker is free again.
QfdSubmit(w) ==
    /\ wk[w].pc = "submit"
    /\ wk' = [wk EXCEPT ![w] =
                 [WorkerIdle EXCEPT !.dispatched =
                      IF Missing(wk[w].folder_id) THEN <<>>
                      ELSE Dispatch(wk[w].attachments, 1, wk[w].folder_id, wk[w].thread_name)]]
    /\ UNCHANGED <<PARENT_FOLDER_ID, parentFile, folder_cache, now, driveFolders,
                   driveNext, cmd, tasksLeft, changesLeft, sinceChange>>
    /\ UNCHANGED notFolder

\* A role test every member of the guild passes.
HasRole_anyMember(caller) == caller # "no_guild"

\* any(role.name == ROLE_NAME for role in member.roles)
HasRole(caller) == caller \in {"member_with_role", "fetched_with_role"}

\* change_folder_command up to the validation: the format check, the lookup of
\* the member and of its role, and the deferral of the response.
ChangeFolderBegin(id, caller) ==
    /\ cmd.pc = "idle"
    /\ changesLeft > 0
    /\ LET accepted == /\ FolderIdFormatOk(id)
                       /\ caller # "no_guild"
                       /\ HasRole(caller)
       IN  changesLeft' = IF accepted THEN changesLeft - 1 ELSE changesLeft
    /\ cmd' = IF ~FolderIdFormatOk(id)
                 THEN CmdIdle      \* "Invalid folder ID format"
              ELSE IF caller = "no_guild"
                 THEN CmdIdle      \* "This command can only be used within a server"
              ELSE IF ~HasRole(caller)
                 THEN CmdIdle      \* "You do not have the required role"
              ELSE [pc |-> "validate", id |-> id, caller |-> caller]
    /\ UNCHANGED <<PARENT_FOLDER_ID, parentFile, folder_cache, now, driveFolders,
                   driveNext, wk, tasksLeft, sinceChange>>
    /\ UNCHANGED notFolder

\* check_parent_folder_id: files().get on the candidate id; any error makes
\* it False and the command answers that the id is invalid.
ChangeFolderValidate(out) ==
    /\ cmd.pc = "validate"
    /\ cmd' = IF out.kind = "ok" /\ cmd.id \in DriveRoots
              THEN [cmd EXCEPT !.pc = "set"]
              ELSE CmdIdle         \* "Invalid folder ID provided"
    /\ UNCHANGED <<PARENT_FOLDER_ID, parentFile, folder_cache, now, driveFolders,
                   driveNext, wk, tasksLeft, changesLeft, sinceChange>>
    /\ UNCHANGED notFolder

\* The new id is written to parent_folder_file and assigned to
\* PARENT_FOLDER_ID; when the file cannot be opened the command ends in its
\* exception handler with nothing changed.
ChangeFolderSet(fileOk) ==
    /\ cmd.pc = "set"
    /\ IF fileOk
       THEN /\ parentFile' = cmd.id
            /\ PARENT_FOLDER_ID' = cmd.id
            /\ cmd' = [cmd EXCEPT !.pc = "clear"]
       ELSE /\ cmd' = CmdIdle
            /\ UNCHANGED <<parentFile, PARENT_FOLDER_ID>>
    /\ UNCHANGED <<folder_cache, now, driveFolders, driveNext, wk, tasksLeft, changesLeft, sinceChange>>
    /\ UNCHANGED notFolder

\* folder_cache.clear() under cache_lock, and the success message.
ChangeFolderClear ==
    /\ cmd.pc = "clear"
    /\ folder_cache' = EmptyCache
    /\ cmd' = CmdIdle
    /\ sinceChange' = DOMAIN folder_cache
    /\ UNCHANGED <<PARENT_FOLDER_ID, parentFile, now, driveFolders, driveNext, wk,
                   tasksLeft, changesLeft>>
    /\ UNCHANGED notFolder

\* Time passes.
Tick ==
    /\ now < MaxTime
    /\ now' = now + 1
    /\ UNCHANGED <<PARENT_FOLDER_ID, parentFile, folder_cache, driveFolders, driveNext,
                   wk, cmd, tasksLeft, changesLeft, sinceChange>>
    /\ UNCHANGED notFolder

\* A user of the drive removes a folder.
DriveDelete(f) ==
    /\ f \in driveFolders
    /\ driveFolders' = driveFolders \ {f}
    /\ UNCHANGED <<PARENT_FOLDER_ID, parentFile, folder_cache, now, driveNext, wk, cmd,
                   tasksLeft, changesLeft, sinceChange>>
    /\ UNCHANGED notFolder

\* The workers, the changefolder command and the clock.
FolderNext ==
    \/ \E w \in Workers, raw \in ThreadNames : QfdStart(w, raw, PlainAttachments)
    \/ \E w \in Workers, out \in ApiOutcomes : CfeQuery(w, out)
    \/ \E w \in Workers : CfeInsert(w)
    \/ \E w \in Workers : CfBegin(w)
    \/ \E w \in Workers, out \in ApiOutcomes : CfCreate(w, out)
    \/ \E w \in Workers : CfInsert(w)
    \/ \E w \in Workers : QfdSubmit(w)
    \/ \E id \in CandidateIds, caller \in Callers \ {"fetched_with_role"} :
            ChangeFolderBegin(id, caller)
    \/ \E out \in ApiOutcomes : ChangeFolderValidate(out)
    \/ \E fileOk \in BOOLEAN : ChangeFolderSet(fileOk)
    \/ ChangeFolderClear
    \/ Tick

\* The URLs of the attachments of a message: an image, an image in capitals,
\* a video, an image extension with no name before it, and a text file
AttachmentUrls ==
    { <<"u", "/", "p", ".", "h", "e", "i", "c">>,
      <<"u", "/", "P", ".", "J", "P", "G">>,
      <<"u", "/", "v", ".", "m", "p", "4">>,
      <<"u", "/", ".", "j", "p", "g">>,
      <<"u", "/", "n", ".", "t", "x", "t">> }

\* message.attachments: one or two attachments
AttachmentLists ==
    {<<a>> : a \in AttachmentUrls} \cup {<<a, b>> : a \in AttachmentUrls, b \in AttachmentUrls}

\* queue_file_downloads, one call at a time, for messages of every kind
DispatchNext ==
    \/ \E attachments \in AttachmentLists : QfdStart("w1", <<"t">>, attachments)
    \/ \E out \in ApiOutcomes : CfeQuery("w1", out)
    \/ CfeInsert("w1")
    \/ CfBegin("w1")
    \/ \E out \in ApiOutcomes : CfCreate("w1", out)
    \/ CfInsert("w1")
    \/ QfdSubmit("w1")

\* Two thread names with different folders.
FolderNames == { <<"t">>, <<"s">> }

\* queue_file_downloads for two thread names, one call at a time, and the
\* clock
CreateNext ==
    \/ \E raw \in FolderNames : QfdStart("w1", raw, PlainAttachments)
    \/ \E out \in ApiOutcomes : CfeQuery("w1", out)
    \/ CfeInsert("w1")
    \/ CfBegin("w1")
    \/ \E out \in ApiOutcomes : CfCreate("w1", out)
    \/ CfInsert("w1")
    \/ QfdSubmit("w1")
    \/ Tick

\* The changefolder command by every caller, beside one worker that fills
\* the cache
CommandNext ==
    \/ QfdStart("w1", <<"t">>, PlainAttachments)
    \/ \E out \in ApiOutcomes : CfeQuery("w1", out)
    \/ CfeInsert("w1")
    \/ CfBegin("w1")
    \/ \E out \in ApiOutcomes : CfCreate("w1", out)
    \/ CfInsert("w1")
    \/ QfdSubmit("w1")
    \/ \E id \in CandidateIds, caller \in Callers : ChangeFolderBegin(id, caller)
    \/ \E out \in ApiOutcomes : ChangeFolderValidate(out)
    \/ \E fileOk \in BOOLEAN : ChangeFolderSet(fileOk)
    \/ ChangeFolderClear

\* The folder state of a process in which nothing of the above runs.
FolderQuiet ==
    /\ PARENT_FOLDER_ID = RootA
    /\ parentFile = NoFile
    /\ folder_cache = EmptyCache
    /\ now = 0
    /\ driveFolders = {}
    /\ driveNext = 3
    /\ wk = [w \in Workers |-> WorkerIdle]
    /\ cmd = CmdIdle
    /\ tasksLeft = MaxTasks
    /\ changesLeft = MaxChanges
    /\ sinceChange = {}

\* The workers, the clock and the drive's users while no changefolder command
\* is given.
CacheNext ==
    \/ \E w \in Workers, raw \in ThreadNames : QfdStart(w, raw, PlainAttachments)
    \/ \E w \in Workers, out \in ApiOutcomes : CfeQuery(w, out)
    \/ \E w \in Workers : CfeInsert(w)
    \/ \E w \in Workers : CfBegin(w)
    \/ \E w \in Workers, out \in ApiOutcomes : CfCreate(w, out)
    \/ \E w \in Workers : CfInsert(w)
    \/ \E w \in Workers : QfdSubmit(w)
    \/ Tick
    \/ \E f \in driveFolders : DriveDelete(f)


(***************************************************************************)
(* download_video: one call, with the attempts retry_with_backoff makes of *)
(* _download_video and, inside each, upload with its own retry loop.       *)
(***************************************************************************)
\* MEMORY_RESERVE_PERCENT, at its default
MEMORY_RESERVE_PERCENT == 10

\* virtual_memory().available as it may be when is_memory_available reads it
AvailableLevels == {0, 10, 20, 30}

\* The Content-Length values the server may announce
ContentLengths == {0, 9, 18, 20}

\* None, where the code holds an int or None
NoNumber == -1

\* What the HEAD request does: a response, with or without Content-Length,
\* or an exception.
HeadOutcomes ==
    [kind : {"response"}, status : {200}, length : ContentLengths \cup {NoNumber}]
        \cup [kind : {"response"}, status : {404}, length : {NoNumber}]
        \cup [kind : {"raise"}, status : {NoStatus}, length : {NoNumber}]

\* What the GET request does.
GetOutcomes ==
    [kind : {"response"}, status : {200, 404, 503}, err : {None}]
        \cup [kind : {"raise"}, status : {NoStatus}, err : {ErrConnReset}]

\* get_file_size; a response without the Content-Length header has
\* head.length = NoNumber
GetFileSize(head, limit) ==
    IF head.kind = "raise" THEN NoNumber
    ELSE IF head.status = 200 /\ head.length # NoNumber
         THEN IF limit > 0 /\ head.length > limit THEN NoNumber ELSE head.length
         ELSE NoNumber

\* usable_memory of is_memory_available
UsableMemory(available) == available - ((available * MEMORY_RESERVE_PERCENT) \div 100)

\* is_memory_available
IsMemoryAvailable(file_size, available) == UsableMemory(available) > file_size

\* Python's truth value of an int-or-None
Truthy(x) == x # NoNumber /\ x # 0

\* The condition of the routing: VIDEO_IN_MEMORY and file_size and
\* is_memory_available(file_size)
RouteToMemory(enabled, file_size, available) ==
    enabled /\ Truthy(file_size) /\ IsMemoryAvailable(file_size, available)

\* No exception, where the code has one or none
NoError == [type |-> <<>>, msg |-> <<>>, status |-> NoStatus]

\* The finally clause around upload runs however upload ended.
CleanupRuns_onSuccess(upload_error) == upload_error = NoError

CleanupRuns(upload_error) == TRUE

\* A choice that takes the path for given when there is no stream.
Media_pathAssumed(stream_data, file_path) ==
    IF stream_data # None THEN "MediaIoBaseUpload" ELSE "MediaFileUpload"

\* upload's choice of the media body
Media(stream_data, file_path) ==
    IF stream_data # None THEN "MediaIoBaseUpload"
    ELSE IF file_path # None THEN "MediaFileUpload"
    ELSE None

\* temp_file.name of the file the attempt creates
TempPath(attempt) == "tmp" \o ToString(attempt)

VideoIdle ==
    [pc |-> "idle", attempt |-> 0, file_size |-> NoNumber, stream |-> None,
     temp_file_path |-> None, up_attempt |-> 0, upload_error |-> NoError,
     result |-> None, error |-> NoError]

\* The record of one attempt of _download_video
AttemptBegun ==
    [content_length |-> NoNumber, file_size |-> NoNumber, routed |-> FALSE,
     available |-> NoNumber, to_memory |-> FALSE, downloaded |-> FALSE, events |-> <<>>, outcome |-> None, error |-> NoError]

VideoInit ==
    /\ VIDEO_IN_MEMORY \in BOOLEAN
    /\ MAX_FILE_SIZE_BYTES \in FileSizeLimits
    /\ vd = VideoIdle
    /\ tempFiles = {}
    /\ unlinkFailed = {}
    /\ vlog = AttemptBegun

\* The video state of a process in which no download_video runs.
VideoQuiet ==
    /\ VIDEO_IN_MEMORY = FALSE
    /\ MAX_FILE_SIZE_BYTES = 0
    /\ vd = VideoIdle
    /\ tempFiles = {}
    /\ unlinkFailed = {}
    /\ vlog = AttemptBegun

\* The record of the running attempt, changed
Logged(field, value) == [vlog EXCEPT ![field] = value]
LoggedEvent(log, event) == [log EXCEPT !.events = Append(@, event)]
LoggedOutcome(log, outcome, e) == [log EXCEPT !.outcome = outcome, !.error = e]

\* _download_video ended by raising e: retry_with_backoff in download_video
\* decides between sleeping before another attempt and raising; the locals of
\* the attempt are gone.
AttemptRaised(log, e) ==
    LET d == RetryDecision([kind |-> "raise", val |-> None, err |-> e], vd.attempt, MAX_RETRIES)
    IN  /\ vlog' = LoggedOutcome(log, "raised", e)
        /\ vd' = IF d = "sleep"
                 THEN [VideoIdle EXCEPT !.pc = "sleep", !.attempt = vd.attempt]
                 ELSE [VideoIdle EXCEPT !.pc = "raised", !.attempt = vd.attempt,
                                        !.result = "raised", !.error = e]

\* _download_video returned True.
AttemptReturned(log) ==
    /\ vlog' = LoggedOutcome(log, "ok", NoError)
    /\ vd' = [VideoIdle EXCEPT !.pc = "returned", !.attempt = vd.attempt, !.result = "ok"]

\* upload has returned (e = NoError) or raised e: the memory side ends the
\* attempt; the disk side goes on to its finally clause.
UploadEnded(log, e) ==
    LET ended == LoggedEvent(log, IF e = NoError
                                  THEN [ev |-> "upload_return"]
                                  ELSE [ev |-> "upload_raise", err |-> e])
    IN  IF vd.temp_file_path # None /\ CleanupRuns(e)
        THEN /\ vd' = [vd EXCEPT !.pc = "unlink", !.upload_error = e]
             /\ vlog' = ended
        ELSE IF e = NoError
        THEN AttemptReturned(ended)
        ELSE AttemptRaised(ended, e)

\* download_video is called: retry_with_backoff begins its first attempt.
VideoStart ==
    /\ vd.pc = "idle"
    /\ vd' = [vd EXCEPT !.pc = "head"]
    /\ vlog' = AttemptBegun
    /\ UNCHANGED <<VIDEO_IN_MEMORY, MAX_FILE_SIZE_BYTES, tempFiles, unlinkFailed>>
    /\ UNCHANGED notVideo

\* file_size = get_file_size(url); the record keeps the Content-Length the
\* server reported next to what get_file_size made of it.
VideoHead(head) ==
    /\ vd.pc = "head"
    /\ LET file_size == GetFileSize(head, MAX_FILE_SIZE_BYTES)
       IN  /\ vd' = [vd EXCEPT !.pc = "get", !.file_size = file_size]
           /\ vlog' = [vlog EXCEPT !.file_size = file_size,
                                   !.content_length = head.length]
    /\ UNCHANGED <<VIDEO_IN_MEMORY, MAX_FILE_SIZE_BYTES, tempFiles, unlinkFailed>>
    /\ UNCHANGED notVideo

\* response = http_session.get(url, stream=True), and the check of its status
VideoGet(get) ==
    /\ vd.pc = "get"
    /\ IF get.kind = "raise"
       THEN AttemptRaised(vlog, get.err)
       ELSE IF get.status # 200
       THEN AttemptRaised(vlog, ErrHttp(get.status))
       ELSE /\ vd' = [vd EXCEPT !.pc = "route"]
            /\ UNCHANGED vlog
    /\ UNCHANGED <<VIDEO_IN_MEMORY, MAX_FILE_SIZE_BYTES, tempFiles, unlinkFailed>>
    /\ UNCHANGED notVideo

\* The routing decision; on the disk side NamedTemporaryFile(delete=False)
\* creates the file.
VideoRoute(available) ==
    /\ vd.pc = "route"
    /\ LET to_memory == RouteToMemory(VIDEO_IN_MEMORY, vd.file_size, available)
           path      == TempPath(vd.attempt)
           seen      == [vlog EXCEPT !.routed = TRUE, !.available = available,
                                     !.to_memory = to_memory]
       IN  /\ vlog' = seen
           /\ IF to_memory
              THEN /\ vd' = [vd EXCEPT !.pc = "read", !.stream = "BytesIO"]
                   /\ UNCHANGED tempFiles
              ELSE /\ vd' = [vd EXCEPT !.pc = "read", !.temp_file_path = path]
                   /\ tempFiles' = tempFiles \cup {path}
    /\ UNCHANGED <<VIDEO_IN_MEMORY, MAX_FILE_SIZE_BYTES, unlinkFailed>>
    /\ UNCHANGED notVideo

\* The chunks of the body are written to the stream or to the temporary file;
\* reading them may fail.  When all are written, upload is called.
VideoRead(ok) ==
    /\ vd.pc = "read"
    /\ IF ~ok
       THEN AttemptRaised(vlog, ErrConnReset)
       ELSE LET called == [ev |-> "upload", stream |-> vd.stream, path |-> vd.temp_file_path]
                log    == LoggedEvent(Logged("downloaded", TRUE), called)
            IN  IF SERVICE = None
                THEN UploadEnded(log, ErrNotAuthenticated)
                ELSE IF Media(vd.stream, vd.temp_file_path) = None
                THEN UploadEnded(log, NoError)
                ELSE /\ vd' = [vd EXCEPT !.pc = "upload", !.up_attempt = 0]
                     /\ vlog' = log
    /\ UNCHANGED <<VIDEO_IN_MEMORY, MAX_FILE_SIZE_BYTES, tempFiles, unlinkFailed>>
    /\ UNCHANGED notVideo

\* upload: one attempt of _upload_file inside its retry_with_backoff.
VideoUpload(out) ==
    /\ vd.pc = "upload"
    /\ LET d == RetryDecision(out, vd.up_attempt, MAX_RETRIES)
       IN  IF d = "sleep"
           THEN /\ vd' = [vd EXCEPT !.up_attempt = @ + 1]
                /\ UNCHANGED vlog
           ELSE UploadEnded(vlog, IF d = "return" THEN NoError ELSE out.err)
    /\ UNCHANGED <<VIDEO_IN_MEMORY, MAX_FILE_SIZE_BYTES, tempFiles, unlinkFailed>>
    /\ UNCHANGED notVideo

\* finally: unlink(temp_file_path); its failure is logged and dropped.  Then
\* the attempt returns True, or the error of upload goes on.
VideoUnlink(ok) ==
    /\ vd.pc = "unlink"
    /\ tempFiles' = IF ok THEN tempFiles \ {vd.temp_file_path} ELSE tempFiles
    /\ unlinkFailed' = IF ok THEN unlinkFailed ELSE unlinkFailed \cup {vd.temp_file_path}
    /\ LET log == LoggedEvent(vlog, [ev |-> "unlink", path |-> vd.temp_file_path, ok |-> ok])
       IN  IF vd.upload_error = NoError
           THEN AttemptReturned(log)
           ELSE AttemptRaised(log, vd.upload_error)
    /\ UNCHANGED <<VIDEO_IN_MEMORY, MAX_FILE_SIZE_BYTES>>
    /\ UNCHANGED notVideo

\* exponential_backoff_sleep(attempt), and the next attempt begins.
VideoSleep ==
    /\ vd.pc = "sleep"
    /\ vd' = [vd EXCEPT !.pc = "head", !.attempt = @ + 1]
    /\ vlog' = AttemptBegun
    /\ UNCHANGED <<VIDEO_IN_MEMORY, MAX_FILE_SIZE_BYTES, tempFiles, unlinkFailed>>
    /\ UNCHANGED notVideo

VideoNext ==
    \/ VideoStart
    \/ VideoSleep
    \/ \E head \in HeadOutcomes : VideoHead(head)
    \/ \E get \in GetOutcomes : VideoGet(get)
    \/ \E available \in AvailableLevels : VideoRoute(available)
    \/ \E ok \in BOOLEAN : VideoRead(ok)
    \/ \E out \in ApiOutcomes : VideoUpload(out)
    \/ \E ok \in BOOLEAN : VideoUnlink(ok)

(***************************************************************************)
(* upload.  The bytes of a payload are its format and its length; a file   *)
(* to upload is the triple (bytes, file name, extension).                  *)
(***************************************************************************)
NoData == [fmt |-> "none", size |-> 0]

NoTriple == [data |-> NoData, file_name |-> <<>>, extension |-> <<>>]

UploadIdle ==
    [pc |-> "idle", stream_data |-> None, data |-> NoData, file_name |-> <<>>,
     extension |-> <<>>, file_type |-> "image", file_path |-> None, body_name |-> <<>>,
     mimetype |-> <<>>, media |-> None, attempt |-> 0, requests |-> 0, answered |-> 0,
     created |-> 0, last_error |-> NoError, reports |-> <<>>, error |-> NoError]

\* upload is entered with these arguments
UploadCalled(stream_data, data, file_name, extension, file_type, file_path) ==
    [UploadIdle EXCEPT !.pc = "enter", !.stream_data = stream_data, !.data = data,
                       !.file_name = file_name, !.extension = extension,
                       !.file_type = file_type, !.file_path = file_path]

\* A line upload writes to the log
Report(level, what) == [level |-> level, what |-> what]

\* An except clause that logs the error and returns.
UploadRaises_swallows(call, e) ==
    [call EXCEPT !.pc = "returned",
                 !.reports = Append(@, Report("error", "Failed to upload"))]

\* upload's except clause: the error is logged and raised again.
UploadRaises(call, e) ==
    [call EXCEPT !.pc = "raised", !.error = e,
                 !.reports = Append(@, Report("error", "Failed to upload"))]

\* The first lines of upload, up to the call of retry_with_backoff
UploadEnter ==
    /\ up.pc = "enter"
    /\ up' = IF SERVICE = None
             THEN UploadRaises(up, ErrNotAuthenticated)
             ELSE LET extension == IF up.extension = Jpg THEN Jpeg ELSE up.extension
                      media     == Media(up.stream_data, up.file_path)
                      seen      == [up EXCEPT !.body_name = Upper(up.file_name),
                                              !.mimetype = <<up.file_type>> \o <<"/">> \o extension,
                                              !.media = media]
                  IN  IF media = None
                      THEN [seen EXCEPT !.pc = "returned",
                                        !.reports = Append(@, Report("error", "No media data to upload"))]
                      ELSE [seen EXCEPT !.pc = "create", !.attempt = 0]
    /\ UNCHANGED <<im, ilog>>
    /\ UNCHANGED notImage

\* The file names upload is called with
UploadNames ==
    { <<"p", ".", "j", "p", "g">>, <<"p", ".", "j", "p", "e", "g">>, <<"v", ".", "m", "p", "4">> }

\* upload is called by some caller, with or without a stream and a path.
UploadStart(stream_data, file_path, file_name, file_type) ==
    /\ up.pc = "idle"
    /\ im.pc = "idle"
    /\ up' = UploadCalled(stream_data, IF stream_data = None THEN NoData ELSE [fmt |-> "other", size |-> 9],
                          file_name, SplitLast(file_name, "."), file_type, file_path)
    /\ UNCHANGED <<im, ilog>>
    /\ UNCHANGED notImage

\* What one files().create(...).execute() does: it answers with the new
\* file, answers with nothing, or raises.
CreateOutcomes ==
    [kind : {"ok"}, val : {"file", None}, err : {None}]
        \cup [kind : {"raise"}, val : {None}, err : {ErrApi503, ErrApi404}]

\* One attempt of _upload_file inside retry_with_backoff, and what upload
\* does with the result.
UploadCreate(out) ==
    /\ up.pc = "create"
    /\ LET d    == RetryDecision(out, up.attempt, MAX_RETRIES)
           sent == [up EXCEPT !.requests = @ + 1,
                              !.last_error = IF out.kind = "ok" THEN NoError ELSE out.err]
       IN  up' = IF d = "sleep" THEN [sent EXCEPT !.attempt = @ + 1]
                 ELSE IF d = "return"
                 THEN [sent EXCEPT !.pc = "returned", !.answered = @ + 1,
                                   !.created = IF out.val = None THEN @ ELSE @ + 1,
                                   !.reports = Append(@, IF out.val = None
                                                         THEN Report("warning", "Failed to upload image")
                                                         ELSE Report("info", "Uploaded"))]
                 ELSE UploadRaises(sent, out.err)
    /\ UNCHANGED <<im, ilog>>
    /\ UNCHANGED notImage

UploadNext ==
    \/ \E stream_data \in {None, "BytesIO"}, file_path \in {None, TempPath(0)},
          file_name \in UploadNames, file_type \in {"image", "video"} :
            UploadStart(stream_data, file_path, file_name, file_type)
    \/ UploadEnter
    \/ \E out \in CreateOutcomes : UploadCreate(out)

(***************************************************************************)
(* convert_to_jpeg and download_image.                                     *)
(***************************************************************************)
\* A fallback that renames the file although the bytes stay as they were.
ConvertToJpeg_renames(image_data, file_name, extension) ==
    [ok |-> image_data.fmt = "heic",
     data |-> IF image_data.fmt = "heic" THEN [image_data EXCEPT !.fmt = "jpeg"] ELSE image_data,
     file_name |-> Replace(file_name, Heic, Jpeg), extension |-> Jpeg]

\* convert_to_jpeg: pyheif reads HEIF bytes only; on any exception the three
\* arguments come back.
ConvertToJpeg(image_data, file_name, extension) ==
    IF image_data.fmt = "heic"
    THEN [ok |-> TRUE, data |-> [image_data EXCEPT !.fmt = "jpeg"],
          file_name |-> Replace(file_name, Heic, Jpeg), extension |-> Jpeg]
    ELSE [ok |-> FALSE, data |-> image_data, file_name |-> file_name, extension |-> extension]

\* What the bytes behind an image URL are
Payloads == [fmt : {"heic", "other"}, size : PayloadSizes]

\* download_image before it is called with url and the file name
\* queue_file_downloads finds in it; payload is what the URL serves.
ImageIdle(url, payload) ==
    [pc |-> "idle", url |-> url, payload |-> payload,
     file_name |-> FindFileName(ImageNameExtensions, Lower(url)),
     extension |-> SplitLast(FindFileName(ImageNameExtensions, Lower(url)), "."),
     current_file_name |-> <<>>, current_extension |-> <<>>, image_data |-> NoData,
     attempt |-> 0, gets |-> 0, sleeps |-> 0, uploads |-> 0, requests |-> 0, answered |-> 0,
     result |-> None, error |-> NoError]

\* The record of one attempt of _download_image
ImageAttemptBegun ==
    [get_status |-> NoStatus, transcode |-> "no", before |-> NoTriple,
     uploaded |-> FALSE, upload |-> NoTriple, upload_error |-> NoError,
     outcome |-> None, error |-> NoError]

ImageInit ==
    /\ \E url \in ImageUrls, payload \in Payloads : im = ImageIdle(url, payload)
    /\ ilog = ImageAttemptBegun
    /\ up = UploadIdle

\* The image state of a process in which no download_image runs.
ImageQuiet ==
    /\ im = ImageIdle(<<"u", "/", "p", ".", "h", "e", "i", "c">>, [fmt |-> "heic", size |-> 9])
    /\ ilog = ImageAttemptBegun
    /\ up = UploadIdle

\* A retry that goes back to the store step alone, with what the attempt has.
ImageAttemptRaised_resumesAtStore(state, log, e) ==
    LET d == RetryDecision([kind |-> "raise", val |-> None, err |-> e], im.attempt, MAX_RETRIES)
    IN  /\ ilog' = [log EXCEPT !.outcome = "raised", !.error = e]
        /\ im' = IF d = "sleep"
                 THEN [state EXCEPT !.pc = IF log.uploaded THEN "store" ELSE "sleep",
                                    !.attempt = IF log.uploaded THEN @ + 1 ELSE @]
                 ELSE [state EXCEPT !.pc = "raised", !.image_data = NoData,
                                    !.result = "raised", !.error = e]

\* _download_image ended by raising e: retry_with_backoff in download_image
\* decides between sleeping before another attempt and raising.  The
\* nonlocal current_file_name and current_extension stay as the attempt left
\* them.
ImageAttemptRaised(state, log, e) ==
    LET d == RetryDecision([kind |-> "raise", val |-> None, err |-> e], im.attempt, MAX_RETRIES)
    IN  /\ ilog' = [log EXCEPT !.outcome = "raised", !.error = e]
        /\ im' = IF d = "sleep"
                 THEN [state EXCEPT !.pc = "sleep", !.image_data = NoData]
                 ELSE [state EXCEPT !.pc = "raised", !.image_data = NoData,
                                    !.result = "raised", !.error = e]

\* download_image is called: retry_with_backoff begins its first attempt.
ImageStart ==
    /\ im.pc = "idle"
    /\ up.pc = "idle"
    /\ im' = [im EXCEPT !.pc = "get", !.current_file_name = im.file_name,
                        !.current_extension = im.extension]
    /\ ilog' = ImageAttemptBegun
    /\ UNCHANGED up
    /\ UNCHANGED notImage

\* A limit that is never exceeded.
ExceedsLimit_unlimited(size, limit) == FALSE

\* MAX_FILE_SIZE_BYTES > 0 and len(image_data) > MAX_FILE_SIZE_BYTES
ExceedsLimit(size, limit) == limit > 0 /\ size > limit

\* response = http_session.get(url), the checks of the status and of the
\* size, and the test of current_extension
ImageGet(status) ==
    /\ im.pc = "get"
    /\ LET got  == [im EXCEPT !.gets = @ + 1]
           log  == [ilog EXCEPT !.get_status = status]
           size == im.payload.size
       IN  IF status # 200
           THEN ImageAttemptRaised(got, log, ErrHttpFor(status, im.url))
           ELSE IF ExceedsLimit(size, MAX_FILE_SIZE_BYTES)
           THEN ImageAttemptRaised(got, log, ErrFileSize(size, MAX_FILE_SIZE_BYTES))
           ELSE /\ im' = [got EXCEPT !.image_data = im.payload,
                                     !.pc = IF im.current_extension \in {Heic, Heif}
                                            THEN "convert" ELSE "store"]
                /\ ilog' = log
    /\ UNCHANGED up
    /\ UNCHANGED notImage

\* image_data, current_file_name, current_extension = convert_to_jpeg(...)
ImageConvert ==
    /\ im.pc = "convert"
    /\ LET c == ConvertToJpeg(im.image_data, im.current_file_name, im.current_extension)
       IN  /\ im' = [im EXCEPT !.pc = "store", !.image_data = c.data,
                               !.current_file_name = c.file_name,
                               !.current_extension = c.extension]
           /\ ilog' = [ilog EXCEPT !.transcode = IF c.ok THEN "ok" ELSE "failed",
                                   !.before = [data |-> im.image_data,
                                               file_name |-> im.current_file_name,
                                               extension |-> im.current_extension]]
    /\ UNCHANGED up
    /\ UNCHANGED notImage

\* upload(folder_id, BytesIO(image_data), current_file_name,
\* current_extension, thread_name, "image") is called.
ImageStore ==
    /\ im.pc = "store"
    /\ up' = UploadCalled("BytesIO", im.image_data, im.current_file_name,
                          im.current_extension, "image", None)
    /\ im' = [im EXCEPT !.pc = "upload", !.uploads = @ + 1]
    /\ ilog' = [ilog EXCEPT !.uploaded = TRUE,
                            !.upload = [data |-> im.image_data,
                                        file_name |-> im.current_file_name,
                                        extension |-> im.current_extension]]
    /\ UNCHANGED notImage

\* An attempt that takes an answer without a file for a failure and stores
\* the image once more.
ImageStored_storesAgain ==
    /\ im.pc = "upload"
    /\ up.pc \in {"returned", "raised"}
    /\ up' = UploadIdle
    /\ LET seen == [im EXCEPT !.requests = @ + up.requests, !.answered = @ + up.answered]
       IN  IF up.pc = "raised"
           THEN ImageAttemptRaised(seen, [ilog EXCEPT !.upload_error = up.error], up.error)
           ELSE IF up.created = 0 /\ im.uploads < MAX_RETRIES
           THEN /\ im' = [seen EXCEPT !.pc = "store"]
                /\ ilog' = [ilog EXCEPT !.uploaded = FALSE]
           ELSE /\ im' = [seen EXCEPT !.pc = "returned", !.image_data = NoData, !.result = "ok"]
                /\ ilog' = [ilog EXCEPT !.outcome = "ok"]
    /\ UNCHANGED notImage

\* upload has returned or raised: _download_image returns True or ends with
\* upload's exception.
ImageStored ==
    /\ im.pc = "upload"
    /\ up.pc \in {"returned", "raised"}
    /\ up' = UploadIdle
    /\ LET seen == [im EXCEPT !.requests = @ + up.requests, !.answered = @ + up.answered]
       IN  IF up.pc = "raised"
           THEN ImageAttemptRaised(seen, [ilog EXCEPT !.upload_error = up.error], up.error)
           ELSE /\ im' = [seen EXCEPT !.pc = "returned", !.image_data = NoData, !.result = "ok"]
                /\ ilog' = [ilog EXCEPT !.outcome = "ok"]
    /\ UNCHANGED notImage

\* exponential_backoff_sleep(attempt), and the next attempt begins.
ImageSleep ==
    /\ im.pc = "sleep"
    /\ im' = [im EXCEPT !.pc = "get", !.attempt = @ + 1, !.sleeps = @ + 1]
    /\ ilog' = ImageAttemptBegun
    /\ UNCHANGED up
    /\ UNCHANGED notImage

\* The statuses a GET of the model answers with
GetStatuses == {200, 404, 429, 503}

ImageNext ==
    \/ ImageStart
    \/ \E status \in GetStatuses : ImageGet(status)
    \/ ImageConvert
    \/ ImageStore
    \/ UploadEnter
    \/ \E out \in CreateOutcomes : UploadCreate(out)
    \/ ImageStored
    \/ ImageSleep

(***************************************************************************)
(* submit_task_with_tracking and the thread pool.  The futures are counted, *)
(* not named: the pool holds so many queued and so many running, and        *)
(* task_futures holds so many that are not done and so many that are.  The  *)
(* block under task_lock is one step.                                      *)
(***************************************************************************)
\* The length above which task_futures is pruned, and the length it is cut to
TRACK_LIMIT == 50

\* max_workers of EXECUTOR
THREAD_POOL_WORKERS == 4

\* No call of submit_task_with_tracking is running; callback and returned
\* tell of the last call that ran.
SubmitIdle == [pc |-> "idle", fut |-> "none", listed |-> FALSE, callback |-> FALSE, returned |-> FALSE]

\* task_done has not run yet.
NothingDone == [raised |-> FALSE, level |-> "none"]

PoolInit ==
    /\ pool = [queued |-> 0, running |-> 0]
    /\ task_futures = [live |-> 0, done |-> 0]
    /\ sub = SubmitIdle
    /\ lastDone = NothingDone
    /\ escaped = FALSE
    /\ workers = THREAD_POOL_WORKERS

\* The futures that are not done, and those of them the running call has
\* submitted, has put on the list, and the rest of those on the list.
Live == pool.queued + pool.running
NewLive == IF sub.fut = "pending" THEN 1 ELSE 0
NewListedLive == IF sub.fut = "pending" /\ sub.listed THEN 1 ELSE 0
ListedLive == task_futures.live - NewListedLive
Unlisted == Live - task_futures.live - (NewLive - NewListedLive)

\* A cut that keeps every future that is not done.
Pruned_all(live, done) == [live |-> live, done |-> 0]

\* [f for f in task_futures if not f.done()][-50:]
Pruned(live, done) ==
    [live |-> IF live > TRACK_LIMIT THEN TRACK_LIMIT ELSE live, done |-> 0]

\* A callback that lets the exception of the task out.
TaskDone_reraises(raised) ==
    [level |-> IF raised THEN "error" ELSE "debug", escapes |-> raised]

\* task_done: f.result() inside try / except Exception; the line it logs and
\* whether an exception leaves it.
TaskDone(raised) ==
    [level |-> IF raised THEN "error" ELSE "debug", escapes |-> FALSE]

\* future = EXECUTOR.submit(func, *args, **kwargs)
PoolSubmit ==
    /\ sub.pc = "idle"
    /\ Live < MaxLive
    /\ pool' = [pool EXCEPT !.queued = @ + 1]
    /\ sub' = [SubmitIdle EXCEPT !.pc = "submitted", !.fut = "pending"]
    /\ UNCHANGED <<task_futures, lastDone, escaped, workers>>
    /\ UNCHANGED notPool

\* with task_lock: the append, and the pruning when the list is longer than
\* TRACK_LIMIT.  The future appended is the last of the list: the cut keeps
\* it unless it is done.
PoolTrack ==
    /\ sub.pc = "submitted"
    /\ LET live == task_futures.live + (IF sub.fut = "pending" THEN 1 ELSE 0)
           done == task_futures.done + (IF sub.fut = "pending" THEN 0 ELSE 1)
           long == live + done > TRACK_LIMIT
       IN  /\ task_futures' = IF long THEN Pruned(live, done)
                              ELSE [live |-> live, done |-> done]
           /\ sub' = [sub EXCEPT !.pc = "tracked",
                                 !.listed = ~long \/ sub.fut = "pending"]
    /\ UNCHANGED <<pool, lastDone, escaped, workers>>
    /\ UNCHANGED notPool

\* future.add_done_callback(task_done); return future.  A future that is
\* done already has its callback run here, in the thread of the caller.
PoolRegister ==
    /\ sub.pc = "tracked"
    /\ sub' = [SubmitIdle EXCEPT !.callback = TRUE, !.returned = TRUE]
    /\ IF sub.fut = "pending"
       THEN UNCHANGED <<lastDone, escaped>>
       ELSE /\ lastDone' = [raised |-> sub.fut = "err", level |-> TaskDone(sub.fut = "err").level]
            /\ escaped' = (escaped \/ TaskDone(sub.fut = "err").escapes)
    /\ UNCHANGED <<pool, task_futures, workers>>
    /\ UNCHANGED notPool

\* A worker thread that is free takes a queued task.
PoolStart ==
    /\ pool.queued > 0
    /\ pool.running < workers
    /\ pool' = [queued |-> pool.queued - 1, running |-> pool.running + 1]
    /\ UNCHANGED <<task_futures, sub, lastDone, escaped, workers>>
    /\ UNCHANGED notPool

\* A running task returns or raises: the future is done, its callback runs
\* in the worker thread, and the worker thread is free again.  which tells
\* whether the future is the one of the running call ("new", no callback
\* yet), another one on the list ("listed") or one no longer on it.
PoolFinish(raised, which) ==
    /\ pool.running > 0
    /\ pool' = [pool EXCEPT !.running = @ - 1]
    /\ CASE which = "new" ->
              /\ sub.fut = "pending"
              /\ sub' = [sub EXCEPT !.fut = IF raised THEN "err" ELSE "ok"]
              /\ task_futures' = IF sub.listed
                                 THEN [live |-> task_futures.live - 1, done |-> task_futures.done + 1]
                                 ELSE task_futures
              /\ UNCHANGED <<lastDone, escaped>>
         [] which = "listed" ->
              /\ ListedLive > 0
              /\ task_futures' = [live |-> task_futures.live - 1, done |-> task_futures.done + 1]
              /\ lastDone' = [raised |-> raised, level |-> TaskDone(raised).level]
              /\ escaped' = (escaped \/ TaskDone(raised).escapes)
              /\ UNCHANGED sub
         [] which = "unlisted" ->
              /\ Unlisted > 0
              /\ lastDone' = [raised |-> raised, level |-> TaskDone(raised).level]
              /\ escaped' = (escaped \/ TaskDone(raised).escapes)
              /\ UNCHANGED <<task_futures, sub>>
    /\ UNCHANGED workers
    /\ UNCHANGED notPool

PoolNext ==
    \/ PoolSubmit
    \/ PoolTrack
    \/ PoolRegister
    \/ PoolStart
    \/ \E raised \in BOOLEAN, which \in {"new", "listed", "unlisted"} : PoolFinish(raised, which)

(***************************************************************************)
(* The event loop, the messages it accepts and the shutdown of EXECUTOR    *)
(* (process_message, queue_file_downloads as a pool task, on_disconnect    *)
(* and the exit path of the main block).                                   *)
(***************************************************************************)
MaxMessages == 2
MaxAttachments == 2
Messages == 1..MaxMessages

\* A message the bot has not seen yet.  invocation[a] counts the pipeline
\* tasks of the message that are in the a-th pass of their retry loop.
MessageIdle ==
    [pc |-> "none", attachments |-> 0, submitted |-> 0, started |-> 0,
     finished |-> 0, dropped |-> 0, invocation |-> [a \in 1..MAX_RETRIES |-> 0]]

LoopIdle == [pc |-> "running", by |-> "nothing", drained |-> FALSE]

FrontInit ==
    /\ loop = LoopIdle
    /\ executorShutdown = FALSE
    /\ msgs = [m \in Messages |-> MessageIdle]

FrontQuiet == FrontInit

RECURSIVE BusyOf(_)
BusyOf(S) ==
    IF S = {} THEN 0
    ELSE LET m == CHOOSE x \in S : TRUE
         IN (IF msgs[m].pc = "running" THEN 1 ELSE 0)
            + (msgs[m].started - msgs[m].finished) + BusyOf(S \ {m})

\* The worker threads that are running a task.
Busy == BusyOf(Messages)

\* Work items EXECUTOR holds, queued or running.
Outstanding(m) ==
    \/ msgs[m].pc \in {"queued", "running"}
    \/ msgs[m].finished < msgs[m].submitted

\* EXECUTOR.submit: refuses with RuntimeError once shutdown has been called.
SubmitRefused(flag) == flag

\* on_message, /threadimages or /messageimages pass a message with n media
\* attachments to process_message, which submits queue_file_downloads from the
\* event loop; a refused submit raises out of the handler.
ProcessMessage(m, n) ==
    /\ loop.pc = "running"
    /\ msgs[m].pc = "none"
    /\ msgs' = [msgs EXCEPT ![m] =
                  IF SubmitRefused(executorShutdown)
                  THEN [@ EXCEPT !.pc = "refused"]
                  ELSE [@ EXCEPT !.pc = "queued", !.attachments = n]]
    /\ UNCHANGED <<loop, executorShutdown>>
    /\ UNCHANGED notFront

\* A worker thread takes the queue_file_downloads task of a message.
QfdBegin(m) ==
    /\ msgs[m].pc = "queued"
    /\ Busy < workers
    /\ msgs' = [msgs EXCEPT ![m].pc = "running"]
    /\ UNCHANGED <<loop, executorShutdown>>
    /\ UNCHANGED notFront

\* A queue_file_downloads that, having submitted its tasks, waits for them
\* before it returns.
QfdSubmitNext_waits(m) ==
    /\ msgs[m].pc = "running"
    /\ msgs[m].submitted = msgs[m].attachments => msgs[m].finished = msgs[m].submitted
    /\ msgs' = [msgs EXCEPT ![m] =
                  IF SubmitRefused(executorShutdown)
                  THEN [@ EXCEPT !.pc = "done", !.dropped = msgs[m].attachments - msgs[m].submitted]
                  ELSE IF msgs[m].submitted = msgs[m].attachments
                  THEN [@ EXCEPT !.pc = "done"]
                  ELSE [@ EXCEPT !.submitted = @ + 1]]
    /\ UNCHANGED <<loop, executorShutdown>>
    /\ UNCHANGED notFront

\* queue_file_downloads, one turn of its loop: the pipeline task of the next
\* attachment is submitted; a refused submit raises into the except clause of
\* the function, which logs it and ends the loop.
QfdSubmitNext(m) ==
    /\ msgs[m].pc = "running"
    /\ msgs' = [msgs EXCEPT ![m] =
                  IF SubmitRefused(executorShutdown)
                  THEN [@ EXCEPT !.pc = "done", !.dropped = msgs[m].attachments - msgs[m].submitted]
                  ELSE [@ EXCEPT !.submitted = @ + 1,
                                 !.pc = IF msgs[m].submitted + 1 = msgs[m].attachments
                                        THEN "done" ELSE "running"]]
    /\ UNCHANGED <<loop, executorShutdown>>
    /\ UNCHANGED notFront

\* A worker thread takes a pipeline task (download_image or download_video):
\* retry_with_backoff begins its first pass.
PipelineBegin(m) ==
    /\ msgs[m].started < msgs[m].submitted
    /\ Busy < workers
    /\ msgs' = [msgs EXCEPT ![m].started = @ + 1, ![m].invocation[1] = @ + 1]
    /\ UNCHANGED <<loop, executorShutdown>>
    /\ UNCHANGED notFront

\* What one pass of a pipeline's retry loop does: it returns or it raises.
PipelineOutcomes ==
    [kind : {"ok"}, val : {None}, err : {None}]
        \cup [kind : {"raise"}, val : {None}, err : {ErrConnReset, ErrApi404}]

\* Pass a of a pipeline task of the message raises a transient error with
\* passes left: the task sleeps and goes into its next pass, in the same
\* worker thread.
PipelineRetry(m) ==
    /\ \E a \in 1..MAX_RETRIES, out \in PipelineOutcomes :
          /\ msgs[m].invocation[a] > 0
          /\ RetryDecision(out, a - 1, MAX_RETRIES) = "sleep"
          /\ LET next == IF a < MAX_RETRIES THEN a + 1 ELSE a
                 left == [msgs[m].invocation EXCEPT ![a] = @ - 1]
             IN  msgs' = [msgs EXCEPT ![m].invocation = [left EXCEPT ![next] = @ + 1]]
    /\ UNCHANGED <<loop, executorShutdown>>
    /\ UNCHANGED notFront

\* Pass a of a pipeline task returns, raises a permanent error or raises in
\* the last pass: the task is over and its worker thread is free.
PipelineEnd(m) ==
    /\ \E a \in 1..MAX_RETRIES, out \in PipelineOutcomes :
          /\ msgs[m].invocation[a] > 0
          /\ RetryDecision(out, a - 1, MAX_RETRIES) # "sleep"
          /\ msgs' = [msgs EXCEPT ![m].finished = @ + 1, ![m].invocation[a] = @ - 1]
    /\ UNCHANGED <<loop, executorShutdown>>
    /\ UNCHANGED notFront

\* on_disconnect, on the event loop: EXECUTOR.shutdown(wait=True) sets the
\* flag and then joins the worker threads.
OnDisconnect ==
    /\ loop.pc = "running"
    /\ executorShutdown' = TRUE
    /\ loop' = [loop EXCEPT !.pc = "draining", !.by = "on_disconnect"]
    /\ UNCHANGED msgs
    /\ UNCHANGED notFront

\* bot.run has returned: the finally clause of the main block does the same
\* from the main thread, with the event loop gone.
MainExit ==
    /\ loop.pc = "running"
    /\ executorShutdown' = TRUE
    /\ loop' = [loop EXCEPT !.pc = "draining", !.by = "main"]
    /\ UNCHANGED msgs
    /\ UNCHANGED notFront

\* shutdown(wait=True) returns when the worker threads have ended, that is
\* when no work item is queued or running.
ShutdownReturn ==
    /\ loop.pc = "draining"
    /\ \A m \in Messages : ~Outstanding(m)
    /\ loop' = [loop EXCEPT !.pc = IF loop.by = "main" THEN "exited" ELSE "running",
                            !.drained = TRUE]
    /\ UNCHANGED <<msgs, executorShutdown>>
    /\ UNCHANGED notFront

FrontNext ==
    \/ \E m \in Messages, n \in 1..MaxAttachments : ProcessMessage(m, n)
    \/ \E m \in Messages : QfdBegin(m)
    \/ \E m \in Messages : QfdSubmitNext(m)
    \/ \E m \in Messages : PipelineBegin(m)
    \/ \E m \in Messages : PipelineRetry(m)
    \/ \E m \in Messages : PipelineEnd(m)
    \/ OnDisconnect
    \/ MainExit
    \/ ShutdownReturn

\* The pool sizes EXECUTOR is followed with
PoolSizes == 1..THREAD_POOL_WORKERS

\* The messages and their tasks in a process whose pool is never shut down.
ProgressNext ==
    \/ \E m \in Messages, n \in 1..MaxAttachments : ProcessMessage(m, n)
    \/ \E m \in Messages : QfdBegin(m)
    \/ \E m \in Messages : QfdSubmitNext(m)
    \/ \E m \in Messages : PipelineBegin(m)
    \/ \E m \in Messages : PipelineRetry(m)
    \/ \E m \in Messages : PipelineEnd(m)

\* A free worker thread takes the next work item, a running
\* queue_file_downloads goes on, and every pass of a pipeline's retry loop
\* returns or raises.
ProgressFairness ==
    \A m \in Messages :
        /\ WF_vars(QfdBegin(m))
        /\ WF_vars(QfdSubmitNext(m))
        /\ WF_vars(PipelineBegin(m))
        /\ WF_vars(PipelineRetry(m) \/ PipelineEnd(m))

(***************************************************************************)
(* sanitize_folder_name called on its own, once and then on its own        *)
(* result (queue_file_downloads sanitizes the thread name and              *)
(* check_folder_exists and create_folder sanitize it again).               *)
(***************************************************************************)
MaxNameLen == 3
MaxDottedLen == 5
MaxTailLen == 2

\* Every character the function tells apart, and one it leaves alone.
NameChars == BadChars \cup {".", " ", "a"}
DottedChars == {".", " ", "a", "/"}

SeqsUpTo(chars, n) == {<<>> \o s : s \in UNION {[1..k -> chars] : k \in 0..n}}

Pad(n) == [i \in 1..n |-> "a"]

\* Names around the length limit: a run of letters and a short tail.
LongNames ==
    {Pad(n) \o t : n \in (NAME_MAX_LEN - 2)..(NAME_MAX_LEN + 1),
                   t \in SeqsUpTo({".", " ", "a"}, MaxTailLen)}

SanitizeNames ==
    SeqsUpTo(NameChars, MaxNameLen) \cup SeqsUpTo(DottedChars, MaxDottedLen) \cup LongNames

\* The name is a string or None.
SanitizeInit ==
    \/ sn = [pc |-> "idle", name |-> None, out |-> <<>>, again |-> <<>>]
    \/ \E name \in SanitizeNames :
          sn = [pc |-> "idle", name |-> name, out |-> <<>>, again |-> <<>>]

SanitizeQuiet == sn = [pc |-> "idle", name |-> None, out |-> <<>>, again |-> <<>>]

\* sanitize_folder_name(name)
SanitizeCall ==
    /\ sn.pc = "idle"
    /\ sn' = [sn EXCEPT !.pc = "once", !.out = SanitizeFolderName(sn.name)]
    /\ UNCHANGED notSanitize

\* sanitize_folder_name on the result of the first call
SanitizeAgain ==
    /\ sn.pc = "once"
    /\ sn' = [sn EXCEPT !.pc = "twice", !.again = SanitizeFolderName(sn.out)]
    /\ UNCHANGED notSanitize

SanitizeNext ==
    \/ SanitizeCall
    \/ SanitizeAgain

(***************************************************************************)
(* is_transient_error called on its own.  The message of the error is put  *)
(* together from a lead, a status code and a tail, so that every rule of   *)
(* the function meets messages that match it and messages that do not.     *)
(***************************************************************************)
MessageLeads ==
    { <<>>,
      <<"H", "T", "T", "P", " ">>,
      <<"h", "t", "t", "p", " ", "e", "r", "r", "o", "r", " ">>,
      <<"E", "r", "r", "o", "r", " ">> }

\* The leads with "http" in them, in any case.
HttpLeads ==
    { <<"H", "T", "T", "P", " ">>,
      <<"h", "t", "t", "p", " ", "e", "r", "r", "o", "r", " ">> }

MessageCodes ==
    RetryableCodes \cup { <<>>, <<"4", "0", "4">>, <<"5", "0", "1">> }

\* The tails with one of the four terms in them, in any case.
KeywordTails ==
    { <<" ", "C", "o", "n", "n", "e", "c", "t", "i", "o", "n">>,
      <<" ", "T", "I", "M", "E", "O", "U", "T">>,
      <<" ", "n", "e", "t", "w", "o", "r", "k">>,
      <<" ", "T", "e", "m", "p", "o", "r", "a", "r", "y">> }

MessageTails ==
    KeywordTails \cup { <<>>, <<" ", "n", "o", "t", " ", "f", "o", "u", "n", "d">> }

ErrorTypes ==
    { <<"E", "x", "c", "e", "p", "t", "i", "o", "n">>,
      <<"H", "t", "t", "p", "E", "r", "r", "o", "r">>,
      <<"R", "e", "q", "u", "e", "s", "t", "F", "a", "i", "l", "e", "d">> }

\* response.status_code, NoStatus for an error without the attribute
ResponseStatuses == {NoStatus, 200, 404, 429, 499, 500, 501, 502, 503, 504, 599}

ClassifyParts == [lead : MessageLeads, code : MessageCodes, tail : MessageTails]

\* The exception object with the message of these parts.
ErrorOf(type, parts, status) ==
    [type |-> type, msg |-> parts.lead \o parts.code \o parts.tail, status |-> status]

ClassifyIdle(type, parts, status) ==
    [pc |-> "idle", parts |-> parts, exception |-> ErrorOf(type, parts, status),
     result |-> FALSE]

ClassifyInit ==
    \E type \in ErrorTypes, parts \in ClassifyParts, status \in ResponseStatuses :
        cls = ClassifyIdle(type, parts, status)

ClassifyQuiet ==
    cls = ClassifyIdle(<<"E", "x", "c", "e", "p", "t", "i", "o", "n">>,
                       [lead |-> <<>>, code |-> <<>>, tail |-> <<>>], NoStatus)

\* is_transient_error(exception)
ClassifyCall ==
    /\ cls.pc = "idle"
    /\ cls' = [cls EXCEPT !.pc = "done", !.result = IsTransientError(cls.exception)]
    /\ UNCHANGED notClassify

ClassifyNext == ClassifyCall

(***************************************************************************)
(* convert_to_jpeg called on its own.                                      *)
(***************************************************************************)
MaxStemLen == 2

\* The file names find_file_name can give: word characters, a dot and the
\* extension.  Two stems have an extension token in them.
FileStems ==
    {s \in SeqsUpTo({"p", "_", "1"}, MaxStemLen) : s # <<>>}
        \cup {Heic, <<"x">> \o Heif}

ConvertExtensions == {Heic, Heif, Jpg}

ConvertIdle(stem, extension, payload) ==
    [pc |-> "idle", image_data |-> payload, file_name |-> stem \o <<".">> \o extension,
     stem |-> stem, extension |-> extension,
     result |-> [ok |-> FALSE, data |-> payload, file_name |-> <<>>, extension |-> <<>>]]

ConvertInit ==
    \E stem \in FileStems, extension \in ConvertExtensions, payload \in Payloads :
        cv = ConvertIdle(stem, extension, payload)

ConvertQuiet == cv = ConvertIdle(<<"p">>, Heic, [fmt |-> "heic", size |-> 9])

\* convert_to_jpeg(image_data, file_name, extension)
ConvertCall ==
    /\ cv.pc = "idle"
    /\ cv' = [cv EXCEPT !.pc = "done",
                        !.result = ConvertToJpeg(cv.image_data, cv.file_name, cv.extension)]
    /\ UNCHANGED notConvert

ConvertNext == ConvertCall

(***************************************************************************)
(* The specifications: each runs one part of the program with the others   *)
(* at rest.                                                                *)
(***************************************************************************)
\* The service object of a running bot: the process leaves at start-up when
\* authentication gives none.
Authenticated == SERVICE = "drive"

\* Nothing has been submitted to the pool.
PoolQuiet == PoolInit

\* No pure function is being called on its own.
PureQuiet == SanitizeQuiet /\ ClassifyQuiet /\ ConvertQuiet

SpecRetryInit ==
    RetryInit /\ FolderQuiet /\ VideoQuiet /\ ImageQuiet /\ PoolQuiet /\ FrontQuiet /\ PureQuiet /\ Authenticated

SpecRetry == SpecRetryInit /\ [][RetryNext]_vars

SpecFolderInit ==
    FolderInit /\ RetryInit /\ VideoQuiet /\ ImageQuiet /\ PoolQuiet /\ FrontQuiet /\ PureQuiet /\ Authenticated

SpecFolder == SpecFolderInit /\ [][FolderNext]_vars

SpecCache == SpecFolderInit /\ [][CacheNext]_vars

SpecCommand == SpecFolderInit /\ [][CommandNext]_vars

SpecDispatch == SpecFolderInit /\ [][DispatchNext]_vars

\* queue_file_downloads in a process with or without a service object
SpecCreateInit ==
    /\ FolderInit
    /\ RetryInit
    /\ VideoQuiet
    /\ ImageQuiet
    /\ PoolQuiet
    /\ FrontQuiet
    /\ PureQuiet
    /\ SERVICE \in {None, "drive"}

SpecCreate == SpecCreateInit /\ [][CreateNext]_vars

\* The service object as a caller of the pipelines may find it
ServiceStates == {None, "drive"}

SpecVideoInit ==
    VideoInit /\ RetryInit /\ FolderQuiet /\ ImageQuiet /\ PoolQuiet /\ FrontQuiet /\ PureQuiet /\ SERVICE \in ServiceStates

SpecImageInit ==
    /\ ImageInit
    /\ RetryInit
    /\ FolderQuiet
    /\ VIDEO_IN_MEMORY = FALSE
    /\ MAX_FILE_SIZE_BYTES \in FileSizeLimits
    /\ vd = VideoIdle
    /\ tempFiles = {}
    /\ unlinkFailed = {}
    /\ vlog = AttemptBegun
    /\ PoolQuiet
    /\ FrontQuiet
    /\ PureQuiet
    /\ SERVICE \in ServiceStates

SpecUploadInit ==
    /\ RetryInit
    /\ FolderQuiet
    /\ VideoQuiet
    /\ ImageQuiet
    /\ PoolQuiet
    /\ FrontQuiet
    /\ PureQuiet
    /\ SERVICE \in ServiceStates

SpecPoolInit ==
    PoolInit /\ RetryInit /\ FolderQuiet /\ VideoQuiet /\ ImageQuiet /\ FrontQuiet /\ PureQuiet /\ Authenticated

SpecFrontInit ==
    /\ FrontInit
    /\ RetryInit
    /\ FolderQuiet
    /\ VideoQuiet
    /\ ImageQuiet
    /\ PoolInit
    /\ PureQuiet
    /\ Authenticated

SpecFront == SpecFrontInit /\ [][FrontNext]_vars

SpecProgressInit ==
    /\ FrontInit
    /\ RetryInit
    /\ FolderQuiet
    /\ VideoQuiet
    /\ ImageQuiet
    /\ pool = [queued |-> 0, running |-> 0]
    /\ task_futures = [live |-> 0, done |-> 0]
    /\ sub = SubmitIdle
    /\ lastDone = NothingDone
    /\ escaped = FALSE
    /\ workers \in PoolSizes
    /\ PureQuiet
    /\ Authenticated

SpecProgress == SpecProgressInit /\ [][ProgressNext]_vars /\ ProgressFairness

SpecSanitizeInit ==
    /\ SanitizeInit
    /\ ClassifyQuiet
    /\ ConvertQuiet
    /\ RetryInit
    /\ FolderQuiet
    /\ VideoQuiet
    /\ ImageQuiet
    /\ PoolQuiet
    /\ FrontQuiet
    /\ Authenticated

SpecSanitize == SpecSanitizeInit /\ [][SanitizeNext]_vars

SpecClassifyInit ==
    /\ ClassifyInit
    /\ SanitizeQuiet
    /\ ConvertQuiet
    /\ RetryInit
    /\ FolderQuiet
    /\ VideoQuiet
    /\ ImageQuiet
    /\ PoolQuiet
    /\ FrontQuiet
    /\ Authenticated

SpecClassify == SpecClassifyInit /\ [][ClassifyNext]_vars

SpecConvertInit ==
    /\ ConvertInit
    /\ SanitizeQuiet
    /\ ClassifyQuiet
    /\ RetryInit
    /\ FolderQuiet
    /\ VideoQuiet
    /\ ImageQuiet
    /\ PoolQuiet
    /\ FrontQuiet
    /\ Authenticated

SpecConvert == SpecConvertInit /\ [][ConvertNext]_vars

SpecPool == SpecPoolInit /\ [][PoolNext]_vars

SpecUpload == SpecUploadInit /\ [][UploadNext]_vars

SpecImage == SpecImageInit /\ [][ImageNext]_vars

SpecVideo == SpecVideoInit /\ [][VideoNext]_vars


(***************************************************************************)
(* Claims about retry_with_backoff (SpecRetry).                            *)
(***************************************************************************)
CallsOf(trace) == {i \in 1..Len(trace) : trace[i].ev = "call"}
SleepsOf(trace) == {i \in 1..Len(trace) : trace[i].ev = "sleep"}

FailedTransiently(e) == e.out.kind = "raise" /\ Transient(e.out.err)
FailedPermanently(e) == e.out.kind = "raise" /\ ~Transient(e.out.err)

\* C1: an invocation that raises an error classified permanent, on the first
\* attempt or a later one, is the last thing the call does: no invocation and
\* no sleep follows it, and that very error (the one of that invocation) is
\* raised to the caller; a permanent failure of the first attempt leaves the
\* operation invoked exactly once.
C1_PermanentErrorStopsRetry ==
    \A i \in CallsOf(rTrace) :
        FailedPermanently(rTrace[i]) =>
            /\ i = Len(rTrace)
            /\ rPc = "raised"
            /\ rResult.kind = "raise"
            /\ rResult.val = [e |-> rTrace[i].out.err, n |-> rTrace[i].n]
            /\ (rTrace[i].n = 1 => Cardinality(CallsOf(rTrace)) = 1)

\* A permanent error on the third attempt, after two transient failures.
C1_Witness ==
    /\ rPc = "raised"
    /\ Len(rTrace) = 5
    /\ FailedPermanently(rTrace[5])
    /\ rTrace[5].n = 3

\* C2: when the operation fails transiently on attempts 1..k-1 and succeeds on
\* attempt k <= max_retries, it has been invoked exactly k times, with exactly
\* k-1 sleeps, the i-th sleep lying between invocations i and i+1 and asking
\* for base * mult^(i-1); the value returned is the one of invocation k.  As
\* long as every attempt so far failed transiently and fewer than max_retries
\* were made, the call goes on (so attempt k is reached for every such k).
C2_SuccessOnAttemptK ==
    /\ (rPc = "returned" /\ rMax > 0) =>
          LET k == rResult.n
          IN  /\ k \in 1..rMax
              /\ Len(rTrace) = 2 * k - 1
              /\ Cardinality(CallsOf(rTrace)) = k
              /\ Cardinality(SleepsOf(rTrace)) = k - 1
              /\ \A i \in 1..k :
                    /\ rTrace[2 * i - 1].ev = "call"
                    /\ rTrace[2 * i - 1].n = i
              /\ \A i \in 1..(k - 1) :
                    /\ FailedTransiently(rTrace[2 * i - 1])
                    /\ rTrace[2 * i].ev = "sleep"
                    /\ rTrace[2 * i].n = i - 1
                    /\ rTrace[2 * i].delay =
                          <<BaseDelay * Pow(MultNum, i - 1), Pow(MultDen, i - 1)>>
              /\ rTrace[2 * k - 1].out.kind = "ok"
              /\ rResult.val = rTrace[2 * k - 1].out.val
    /\ ( /\ rPc # "idle"
         /\ Cardinality(CallsOf(rTrace)) < rMax
         /\ \A i \in CallsOf(rTrace) : FailedTransiently(rTrace[i]) )
          => rPc = "running"

\* Success on the fourth attempt: three sleeps.
C2_Witness ==
    /\ rPc = "returned"
    /\ rResult.n = 4
    /\ rResult.val = "v2"
    /\ Cardinality(SleepsOf(rTrace)) = 3

\* C3: when every attempt fails transiently, the operation is invoked exactly
\* max_retries times with exactly max_retries - 1 sleeps, the last thing done
\* is the final invocation (no sleep after it), and the error raised is the
\* error of that final invocation.
C3_AllTransientExhausts ==
    ( /\ rPc = "raised"
      /\ \A i \in CallsOf(rTrace) : FailedTransiently(rTrace[i]) )
        => /\ Cardinality(CallsOf(rTrace)) = rMax
           /\ Cardinality(SleepsOf(rTrace)) = rMax - 1
           /\ rTrace[Len(rTrace)].ev = "call"
           /\ rTrace[Len(rTrace)].n = rMax
           /\ rResult.kind = "raise"
           /\ rResult.val = [e |-> rTrace[Len(rTrace)].out.err, n |-> rMax]

\* Three transient failures of a call with max_retries = 3.
C3_Witness ==
    /\ rPc = "raised"
    /\ rMax = 3
    /\ Cardinality(CallsOf(rTrace)) = 3
    /\ \A i \in CallsOf(rTrace) : FailedTransiently(rTrace[i])


(***************************************************************************)
(* Claims about the folder cache (SpecCache, SpecFolder).                  *)
(***************************************************************************)
\* Worker w takes the step that begins a queue_file_downloads task, that is,
\* it runs check_folder_exists' block under cache_lock.
LooksUp(w) == wk[w].pc = "idle" /\ wk'[w].pc # "idle"

\* C4: a check_folder_exists that finds, for the sanitized name, an entry
\* younger than the TTL returns that entry's folder id and leaves the cache
\* (and the drive) unchanged; the task makes no remote query: with the id in
\* hand it only goes on to submit its downloads.
C4_CacheHit ==
    [][\A w \in Workers :
        /\ LooksUp(w) =>
              LET name == wk'[w].folder_name
              IN  (name \in DOMAIN folder_cache /\ now - folder_cache[name][2] < CACHE_TTL)
                    => /\ wk'[w].pc = "submit"
                       /\ wk'[w].hit
                       /\ wk'[w].folder_id = folder_cache[name][1]
                       /\ wk'[w].queries = 0
                       /\ folder_cache' = folder_cache
                       /\ driveFolders' = driveFolders
        /\ (wk[w].pc = "submit" /\ wk[w].hit /\ wk'[w] # wk[w])
              => /\ wk'[w].pc = "idle"
                 /\ folder_cache' = folder_cache
                 /\ driveFolders' = driveFolders
      ]_vars

\* A second lookup, one unit of time after a create_folder cached the folder
\* it made, is served from the cache.
C4_Witness ==
    \E w \in Workers :
        /\ wk[w].pc = "submit"
        /\ wk[w].hit
        /\ wk[w].folder_name \in DOMAIN folder_cache
        /\ folder_cache[wk[w].folder_name][1] = wk[w].folder_id
        /\ now - folder_cache[wk[w].folder_name][2] = 1
        /\ \E f \in driveFolders : f.id = wk[w].folder_id /\ f.by = "bot"

\* C5: a check_folder_exists that finds an entry of age TTL or more does not
\* return it: the entry is deleted and a remote query follows; every attempt of
\* the query is one remote call, so a query that does not fail is exactly one
\* call.  When the query finds a folder, the entry becomes the found id with
\* the current time, which is later than the expired entry's; when it finds
\* none, None is returned (create_folder is next) and the cache does not hold
\* the expired entry.
C5_CacheExpiry ==
    [][\A w \in Workers :
        /\ LooksUp(w) =>
              LET name == wk'[w].folder_name
              IN  (name \in DOMAIN folder_cache /\ now - folder_cache[name][2] >= CACHE_TTL)
                    => /\ wk'[w].pc = "cfe_query"
                       /\ ~wk'[w].hit
                       /\ wk'[w].folder_id = NoId
                       /\ wk'[w].expired = folder_cache[name]
                       /\ wk'[w].queries = 0
                       /\ name \notin DOMAIN folder_cache'
        /\ (wk[w].pc = "cfe_query" /\ wk[w].expired # NoId /\ wk'[w] # wk[w])
              => \/ /\ wk'[w].pc = "cfe_query"         \* a failed attempt, retried
                    /\ wk'[w].queries = wk[w].queries + 1
                    /\ wk'[w].qfailed
                 \/ /\ wk'[w].pc = "cfe_insert"        \* a folder was found
                    /\ wk'[w].queries = wk[w].queries + 1
                    /\ wk'[w].found # NoId
                    /\ (~wk[w].qfailed => wk'[w].queries = 1)
                 \/ /\ wk'[w].pc = "cf_begin"          \* none found, or the query failed
                    /\ wk'[w].folder_id = NoId
                    /\ (wk'[w].sawMiss /\ ~wk[w].qfailed) => wk[w].queries = 0
                    /\ \/ wk[w].folder_name \notin DOMAIN folder_cache'
                       \/ folder_cache'[wk[w].folder_name] # wk[w].expired
        /\ (wk[w].pc = "cfe_insert" /\ wk[w].expired # NoId /\ wk'[w] # wk[w])
              => /\ folder_cache'[wk[w].folder_name] = <<wk[w].found, now>>
                 /\ now > wk[w].expired[2]
                 /\ wk'[w].folder_id = wk[w].found
      ]_vars

\* An expired entry was replaced: the task holds the id its query found, and
\* the cache holds it with the current time.
C5_Witness ==
    \E w \in Workers :
        /\ wk[w].pc = "submit"
        /\ wk[w].expired # NoId
        /\ ~wk[w].hit
        /\ wk[w].folder_name \in DOMAIN folder_cache
        /\ folder_cache[wk[w].folder_name] = <<wk[w].folder_id, now>>
        /\ now >= wk[w].expired[2] + CACHE_TTL

\* C6: the step that completes a changefolder command leaves the root folder
\* id equal to the command's id and the cache empty, and the next
\* check_folder_exists for a name that was cached when the cache was emptied is
\* not answered from the cache: it goes on to a remote query, which is scoped
\* to the root of that moment.
C6_ChangeFolderThenFreshQuery ==
    [][/\ (cmd.pc = "clear" /\ cmd'.pc = "idle")
            => /\ PARENT_FOLDER_ID' = cmd.id
               /\ folder_cache' = EmptyCache
       /\ \A w \in Workers :
            (LooksUp(w) /\ wk'[w].folder_name \in sinceChange)
                => /\ wk'[w].pc = "cfe_query"
                   /\ ~wk'[w].hit
      ]_vars

\* C7: whenever no changefolder command is running, every cache entry holds
\* the id of a folder under the current root folder id.
C7_CacheEntriesUnderCurrentRoot ==
    cmd.pc = "idle"
        => \A n \in DOMAIN folder_cache : folder_cache[n][1][2] = PARENT_FOLDER_ID

\* C8: two tasks running at the same time for the same name never both find
\* that the folder does not exist and both create it.
C8_NoDuplicateFolders ==
    \A w1, w2 \in Workers :
        (/\ w1 # w2
         /\ wk[w1].sawMiss /\ wk[w2].sawMiss
         /\ wk[w1].created /\ wk[w2].created)
            => \/ wk[w1].folder_name # wk[w2].folder_name
               \/ wk[w1].parent # wk[w2].parent

(***************************************************************************)
(* Claims about download_video (SpecVideo).                                *)
(***************************************************************************)
\* The running attempt of _download_video has ended: it returned, or it raised
\* and retry_with_backoff sleeps or gives up.
AttemptEnded == vd.pc \in {"sleep", "returned", "raised"}

UploadCalls == SelectSeq(vlog.events, LAMBDA e : e.ev = "upload")

UnlinkCalls == SelectSeq(vlog.events, LAMBDA e : e.ev = "unlink")

\* C9: an attempt that reached the routing decision and downloaded the body
\* calls upload exactly once, with a stream and no path if and only if
\* VIDEO_IN_MEMORY is enabled, a content length was obtained and the usable
\* memory exceeds it; otherwise with a path and no stream.
C9_VideoRouting ==
    (AttemptEnded /\ vlog.routed /\ vlog.downloaded) =>
        /\ Len(UploadCalls) = 1
        /\ LET called == UploadCalls[1]
               memory == /\ VIDEO_IN_MEMORY
                         /\ vlog.file_size # NoNumber
                         /\ UsableMemory(vlog.available) > vlog.file_size
           IN  IF memory
               THEN called.stream # None /\ called.path = None
               ELSE called.path # None /\ called.stream = None

\* C10: in a disk-routed attempt whose download to the temporary file
\* completed, nothing is unlinked before upload has returned or raised, and
\* the attempt ends with exactly one unlink, of the attempt's own file, made
\* after upload returned or raised; the attempt returns when upload returned
\* and raises upload's error when upload raised, whatever the unlink did.
C10_TempFileCleanup ==
    (vlog.routed /\ ~vlog.to_memory /\ vlog.downloaded) =>
        LET events == vlog.events
        IN  /\ Len(events) >= 1
            /\ events[1] = [ev |-> "upload", stream |-> None, path |-> TempPath(vd.attempt)]
            /\ ~AttemptEnded => Len(UnlinkCalls) = 0 \/ vd.pc # "upload"
            /\ vd.pc = "upload" => Len(events) = 1
            /\ vd.pc = "unlink" =>
                  /\ Len(events) = 2
                  /\ events[2].ev \in {"upload_return", "upload_raise"}
            /\ AttemptEnded =>
                  /\ Len(events) = 3
                  /\ Len(UnlinkCalls) = 1
                  /\ events[2].ev \in {"upload_return", "upload_raise"}
                  /\ events[3].ev = "unlink"
                  /\ events[3].path = TempPath(vd.attempt)
                  /\ events[3].ok => TempPath(vd.attempt) \notin tempFiles
                  /\ events[2].ev = "upload_return" => vlog.outcome = "ok"
                  /\ events[2].ev = "upload_raise" =>
                        vlog.outcome = "raised" /\ vlog.error = events[2].err

\* The upload from the temporary file failed and so did the unlink that
\* followed: the attempt raises the upload's error.
C10_Witness ==
    /\ AttemptEnded
    /\ vlog.routed /\ ~vlog.to_memory /\ vlog.downloaded
    /\ Len(vlog.events) = 3
    /\ vlog.events[2].ev = "upload_raise"
    /\ vlog.events[3].ev = "unlink"
    /\ ~vlog.events[3].ok
    /\ vlog.outcome = "raised"
    /\ vlog.error = vlog.events[2].err

\* download_video has returned or raised.
VideoFinished == vd.pc \in {"returned", "raised"}

\* C11: when download_video has returned or raised, no temporary file it
\* created is left on disk, other than one whose unlink was called and raised.
C11_NoTempFileLeft ==
    VideoFinished => tempFiles \subseteq unlinkFailed

(***************************************************************************)
(* The image pipeline.                                                     *)
(***************************************************************************)
\* The triple the running attempt of _download_image holds
CurrentTriple ==
    [data |-> im.image_data, file_name |-> im.current_file_name,
     extension |-> im.current_extension]

\* C12: when the conversion fails, convert_to_jpeg hands back the three
\* values it was given, and download_image goes on to call upload with
\* exactly those three; the failure neither ends the attempt nor skips the
\* upload.
C12_TranscoderFallback ==
    ilog.transcode = "failed" =>
        /\ ilog.outcome # "raised" \/ ilog.uploaded
        /\ IF im.pc = "store"
           THEN CurrentTriple = ilog.before
           ELSE ilog.uploaded /\ ilog.upload = ilog.before

\* C12 witness: an attempt whose conversion failed has uploaded and returned.
C12_Witness ==
    /\ ilog.transcode = "failed"
    /\ ilog.uploaded
    /\ ilog.upload.extension \in {Heic, Heif}
    /\ im.pc = "returned"

\* The attachment was dispatched as heic or heif and its bytes can be converted.
ConvertibleHeic == im.extension \in {Heic, Heif} /\ im.payload.fmt = "heic"

\* C13: for a heic or heif attachment with convertible bytes, every upload
\* call of download_image, in the first attempt and in every later one,
\* comes after a conversion in the same attempt and carries the converted
\* bytes under the extension jpeg.
C13_HeicUploadsAreConverted ==
    (ConvertibleHeic /\ ilog.uploaded) =>
        /\ ilog.transcode = "ok"
        /\ ilog.upload.data.fmt = "jpeg"
        /\ ilog.upload.extension = Jpeg

\* A 4xx status other than 429
PermanentStatus(status) == status >= 400 /\ status < 500 /\ status # 429

\* C14: when the GET of download_image answers a 4xx status other than 429,
\* the attempt is the last one (no backoff sleep follows), it calls upload
\* not at all and download_image raises the error; answered so on the first
\* attempt, the GET was issued once.
C14_PermanentStatusNotRetried ==
    PermanentStatus(ilog.get_status) =>
        /\ im.pc = "raised"
        /\ im.error = ErrHttpFor(ilog.get_status, im.url)
        /\ ~ilog.uploaded
        /\ im.attempt = 0 => (im.gets = 1 /\ im.sleeps = 0 /\ im.uploads = 0)

\* The payload is larger than a configured maximum.
Oversized == MAX_FILE_SIZE_BYTES > 0 /\ im.payload.size > MAX_FILE_SIZE_BYTES

\* C15: with a maximum configured and a payload larger than it, no attempt
\* converts or uploads, and the attempt whose GET brought the payload ends
\* download_image with the size error: no attempt follows it.
C15_OversizedImage ==
    Oversized =>
        /\ ilog.transcode = "no" /\ im.uploads = 0 /\ im.pc # "returned"
        /\ ilog.get_status = 200 =>
              /\ im.pc = "raised"
              /\ im.error = ErrFileSize(im.payload.size, MAX_FILE_SIZE_BYTES)
              /\ im.attempt = 0 => (im.gets = 1 /\ im.sleeps = 0)

\* C15 witness: download_image has raised the size error after one GET.
C15_Witness ==
    /\ Oversized
    /\ im.pc = "raised"
    /\ ilog.get_status = 200
    /\ im.gets = 1

\* C16: upload raises what ended its create calls: the permanent error of a
\* call, the transient error of the last call when every call failed, or
\* the error of a missing service, for which no call is made; it logs at
\* error level as it does so.  The attempt of download_image then ends with
\* that error, download_image raises the error of its last attempt, and it
\* returns only when a create call was answered.
C16_UploadErrorsPropagate ==
    /\ up.pc = "raised" =>
          /\ up.error # NoError
          /\ up.reports[Len(up.reports)].level = "error"
          /\ IF SERVICE = None
             THEN up.error = ErrNotAuthenticated /\ up.requests = 0
             ELSE up.requests > 0 /\ up.error = up.last_error /\ up.answered = 0
    /\ (up.pc = "returned" /\ up.media # None) => up.answered = 1
    /\ (ilog.uploaded /\ ilog.outcome = "raised") =>
          (ilog.upload_error # NoError /\ ilog.error = ilog.upload_error)
    /\ im.pc = "raised" => (im.error # NoError /\ im.error = ilog.error)
    /\ im.pc = "returned" => (SERVICE # None /\ im.answered = 1)

\* C16 witness: every create call of every attempt failed transiently and
\* download_image has raised that error.
C16_Witness ==
    /\ im.pc = "raised"
    /\ im.error = ErrApi503
    /\ im.requests = MAX_RETRIES * MAX_RETRIES
    /\ im.answered = 0

(***************************************************************************)
(* upload on its own.                                                      *)
(***************************************************************************)
\* upload was called with neither a stream nor a path and has ended.
EndedWithoutMedia ==
    /\ up.pc \in {"returned", "raised"}
    /\ up.stream_data = None
    /\ up.file_path = None

\* C17: a call of upload with neither a stream nor a path sends no create
\* request and ends with an error-level line in the log: with a service, it
\* returns after the one line "No media data to upload".
C17_NoMediaIsReported ==
    EndedWithoutMedia =>
        /\ up.requests = 0
        /\ up.reports # <<>>
        /\ \A i \in 1..Len(up.reports) : up.reports[i].level = "error"
        /\ SERVICE # None =>
              (up.pc = "returned" /\ up.reports = <<Report("error", "No media data to upload")>>)

\* C17 witness: such a call has returned in an authenticated process.
C17_Witness ==
    /\ EndedWithoutMedia
    /\ SERVICE # None
    /\ up.pc = "returned"

(***************************************************************************)
(* The dispatcher.                                                         *)
(***************************************************************************)
\* C18: a call of submit_task_with_tracking that has returned its handle has
\* registered the callback; no exception leaves the callback, which logs a
\* task that raised at error level; every worker thread stays in use, so a
\* queued task starts whenever a thread is free; and the step in which a
\* task ends changes nothing for the caller that is submitting nor for the
\* tasks that wait.
C18_DispatchIsolation ==
    /\ [](/\ sub.returned => sub.callback
          /\ ~escaped
          /\ workers = THREAD_POOL_WORKERS
          /\ (lastDone # NothingDone /\ lastDone.raised) => lastDone.level = "error"
          /\ (pool.queued > 0 /\ pool.running < THREAD_POOL_WORKERS) => ENABLED PoolStart)
    /\ [][pool'.running < pool.running =>
            /\ pool'.running = pool.running - 1
            /\ pool'.queued = pool.queued
            /\ sub'.pc = sub.pc
            /\ workers' = workers]_vars

\* C18 witness: a task has raised and was logged while other tasks wait and
\* the handle of the last call has been returned.
C18_Witness ==
    /\ lastDone.raised
    /\ lastDone.level = "error"
    /\ pool.queued > 0
    /\ sub.returned

Recognised(url) == DispatchOne(url, 1, RootA, <<"t">>) # <<>>

\* C20: when queue_file_downloads ends with no folder id (the lookup and the
\* creation both gave none) it has submitted nothing; with a folder id it
\* has submitted at most one task per attachment, each for an attachment of
\* its own, in the order of the attachments, with that folder id.  Either way
\* the worker is free again: the call returns.
C20_NoFolderNoDispatch ==
    [][\A w \in Workers :
          (wk[w].pc = "submit" /\ wk'[w].pc # "submit") =>
              LET tasks == wk'[w].dispatched
                  urls  == wk[w].attachments
              IN  /\ wk'[w].pc = "idle"
                  /\ wk[w].folder_id = NoId => tasks = <<>>
                  /\ Len(tasks) <= Len(urls)
                  /\ \A i \in 1..Len(tasks) :
                        /\ tasks[i].index \in 1..Len(urls)
                        /\ tasks[i].url = urls[tasks[i].index]
                        /\ tasks[i].folder_id = wk[w].folder_id
                        /\ \A j \in 1..Len(tasks) : i < j => tasks[i].index < tasks[j].index
                  /\ wk[w].folder_id # NoId =>
                        \A k \in 1..Len(urls) :
                            Recognised(urls[k]) => \E i \in 1..Len(tasks) : tasks[i].index = k]_vars

\* C20 witness: the lookup and the creation have both failed for a message
\* with two attachments that have a pipeline; queue_file_downloads is about
\* to return.
C20_Witness ==
    /\ wk["w1"].pc = "submit"
    /\ wk["w1"].sawMiss \/ wk["w1"].qfailed
    /\ wk["w1"].folder_id = NoId
    /\ Len(wk["w1"].attachments) = 2
    /\ \A k \in 1..2 : Recognised(wk["w1"].attachments[k])

(***************************************************************************)
(* The changefolder command.                                               *)
(***************************************************************************)
\* C21: PARENT_FOLDER_ID and the file of the root id change only in the step
\* of a changefolder command whose id has the allowed format, whose caller
\* has the role and whose id the drive has validated, and they become that
\* id; a command that ends at the validation or before it (it is idle again
\* without having reached the clearing of the cache) leaves the root id,
\* the file and the cache as they were.
C21_RejectedChangeLeavesState ==
    [][/\ (PARENT_FOLDER_ID' # PARENT_FOLDER_ID \/ parentFile' # parentFile) =>
            /\ cmd.pc = "set"
            /\ FolderIdFormatOk(cmd.id)
            /\ cmd.caller \in {"member_with_role", "fetched_with_role"}
            /\ cmd.id \in DriveRoots
            /\ PARENT_FOLDER_ID' = cmd.id
            /\ parentFile' = cmd.id
       /\ (cmd.pc \in {"validate", "set"} /\ cmd'.pc = "idle") =>
            /\ PARENT_FOLDER_ID' = PARENT_FOLDER_ID
            /\ parentFile' = parentFile
            /\ folder_cache' = folder_cache
       /\ (cmd.pc = "idle" /\ cmd'.pc = "idle") =>
            /\ PARENT_FOLDER_ID' = PARENT_FOLDER_ID
            /\ parentFile' = parentFile]_vars

\* C21 witness: a command whose id has the format but is no folder of the
\* drive stands before its validation while the cache holds an entry.
C21_Witness ==
    /\ cmd.pc = "validate"
    /\ cmd.id \notin DriveRoots
    /\ folder_cache # EmptyCache


(***************************************************************************)
(* Claims about the event loop and the shutdown (SpecFront, SpecCommand).  *)
(***************************************************************************)
\* The blocking step the event loop thread is inside, if any: the call of
\* check_parent_folder_id made by change_folder_command, or the join of the
\* worker threads made by on_disconnect.
LoopInline ==
    IF cmd.pc = "validate" THEN "storage_api"
    ELSE IF loop.pc = "draining" /\ loop.by = "on_disconnect" THEN "pool_wait"
    ELSE "nothing"

\* C22: no handler running on the event loop performs a storage-backend API
\* call, an HTTP download or a wait for pool workers inline: the event loop
\* thread is never inside such a step.
C22_NonBlockingFrontEnd == LoopInline = "nothing"

\* C22, the part about the storage API alone (SpecCommand): the event loop is
\* never inside the validation call of /changefolder.
C22_NoInlineStorageCall == LoopInline # "storage_api"

\* C23: when a shutdown of EXECUTOR has returned, every message that
\* process_message accepted has had its queue_file_downloads task run and
\* every one of its attachments run through its pipeline task; none was
\* dropped because the pool refused the submit.
C23_ShutdownDrain ==
    loop.drained =>
        \A m \in Messages :
            msgs[m].pc \notin {"none", "refused"} =>
                /\ msgs[m].pc = "done"
                /\ msgs[m].dropped = 0
                /\ msgs[m].finished = msgs[m].attachments

\* C23, the part that holds: what EXECUTOR accepted is run to completion
\* before the shutdown returns.
C23_AcceptedWorkItemsDrained ==
    loop.drained =>
        \A m \in Messages :
            msgs[m].pc \notin {"none", "refused"} =>
                /\ msgs[m].pc = "done"
                /\ msgs[m].finished = msgs[m].submitted


(***************************************************************************)
(* Claims about sanitize_folder_name (SpecSanitize).                       *)
(***************************************************************************)
Absent(name) == IF name = None THEN TRUE ELSE FALSE

CountOf(s, chars) == Cardinality({i \in 1..Len(s) : s[i] \in chars})

\* The runs of two or more dots of s, by the index of their first dot.
DotRunStarts(s) ==
    {i \in 1..Len(s) : /\ s[i] = "."
                       /\ i < Len(s) /\ s[i + 1] = "."
                       /\ (i = 1 \/ s[i - 1] # ".")}

\* The dots of s that follow a dot.
FollowingDots(s) == {i \in 2..Len(s) : s[i] = "." /\ s[i - 1] = "."}

HasDotDot(s) == \E i \in 1..(Len(s) - 1) : s[i] = "." /\ s[i + 1] = "."

\* Nothing but spaces and single dots: what strip(". ") leaves nothing of.
OnlyStripped(s) == (\A i \in 1..Len(s) : s[i] \in {".", " "}) /\ ~HasDotDot(s)

\* C24: for every input the result of sanitize_folder_name holds none of
\* < > : " / \ | ? * and is not empty; an absent or empty name and a name
\* of which stripping leaves nothing give "unnamed"; in a name without dots
\* and spaces each of those characters is an underscore in the result and
\* every other character is kept.
C24_SanitizedNameIsSafe ==
    sn.pc # "idle" =>
        /\ \A i \in 1..Len(sn.out) : sn.out[i] \notin BadChars
        /\ sn.out # <<>>
        /\ Absent(sn.name) => sn.out = Unnamed
        /\ ~Absent(sn.name) =>
             /\ OnlyStripped(sn.name) => sn.out = Unnamed
             /\ (sn.name # <<>> /\ CountOf(sn.name, {".", " "}) = 0
                               /\ Len(sn.name) <= NAME_MAX_LEN) =>
                  /\ Len(sn.out) = Len(sn.name)
                  /\ \A i \in 1..Len(sn.name) :
                        sn.out[i] = IF sn.name[i] \in BadChars THEN "_" ELSE sn.name[i]

C24_Witness ==
    /\ sn.pc = "once"
    /\ ~Absent(sn.name)
    /\ Len(sn.name) = 3
    /\ sn.name[1] = "a" /\ sn.name[2] = "?" /\ sn.name[3] = "|"
    /\ sn.out = <<"a", "_", "_">>

\* A name of the model with a run of two or more dots, short enough not to
\* be cut.
DottedName(name) ==
    IF Absent(name) THEN FALSE ELSE HasDotDot(name) /\ Len(name) <= NAME_MAX_LEN

EndsClean(name) ==
    IF Absent(name) THEN TRUE
    ELSE name = <<>> \/ name[Len(name)] \notin {".", " "}

\* C26: sanitizing the result again gives the same result, for every input
\* that does not itself end in a dot or a space, inputs longer than 255
\* characters included; and the result is at most 255 characters long for
\* every input.
C26_Idempotent ==
    /\ sn.pc # "idle" => Len(sn.out) <= NAME_MAX_LEN
    /\ (sn.pc = "twice" /\ EndsClean(sn.name)) => sn.again = sn.out

\* C26, the part that holds: the length limit for every input, and
\* idempotence for every input of at most 255 characters, whatever its end.
C26_IdempotentWithinLimit ==
    /\ sn.pc # "idle" => Len(sn.out) <= NAME_MAX_LEN
    /\ (sn.pc = "twice" /\ (IF Absent(sn.name) THEN TRUE ELSE Len(sn.name) <= NAME_MAX_LEN)) =>
          sn.again = sn.out


(***************************************************************************)
(* Claims about is_transient_error (SpecClassify).                         *)
(***************************************************************************)
\* C27: every error whose text has connection, timeout, network or
\* temporary in it, in any case, is classified transient; an error whose
\* text is an HTTP message with status 404, with none of those terms and
\* none of the retryable codes, and which has no response attribute, is
\* classified permanent.
C27_KeywordsAreTransient ==
    cls.pc = "done" =>
        /\ cls.parts.tail \in KeywordTails => cls.result = TRUE
        /\ (/\ cls.parts.lead \in HttpLeads
            /\ cls.parts.code = <<"4", "0", "4">>
            /\ cls.parts.tail \notin KeywordTails
            /\ cls.exception.status = NoStatus) => cls.result = FALSE

C27_Witness ==
    /\ cls.pc = "done"
    /\ cls.parts.tail = <<" ", "T", "I", "M", "E", "O", "U", "T">>
    /\ cls.parts.lead = <<"E", "r", "r", "o", "r", " ">>
    /\ cls.parts.code = <<"4", "0", "4">>
    /\ cls.exception.status = NoStatus
    /\ cls.result = TRUE

\* The message has one of 429, 500, 502, 503, 504 in it.
CodeInMessage ==
    cls.parts.code \in { <<"4", "2", "9">>, <<"5", "0", "0">>, <<"5", "0", "2">>,
                         <<"5", "0", "3">>, <<"5", "0", "4">> }

\* C28: every error whose message has one of the status codes 429, 500,
\* 502, 503, 504 in it is classified transient, whatever the rest of the
\* message says and whatever the type of the error.
C28_CodeInMessageIsTransient ==
    (cls.pc = "done" /\ CodeInMessage) => cls.result = TRUE

\* C28 as the code has it: every error whose message has "http" in it, in
\* any case, and one of the status codes 429, 500, 502, 503, 504 is
\* classified transient, whatever the rest of the message says and whatever
\* the type of the error.
C28_HttpCodeInMessageIsTransient ==
    (cls.pc = "done" /\ CodeInMessage /\ cls.parts.lead \in HttpLeads) => cls.result = TRUE

C28_Witness ==
    /\ cls.pc = "done"
    /\ cls.parts.lead = <<"H", "T", "T", "P", " ">>
    /\ cls.parts.code = <<"5", "0", "4">>
    /\ cls.parts.tail = <<" ", "n", "o", "t", " ", "f", "o", "u", "n", "d">>
    /\ cls.exception.type = <<"E", "x", "c", "e", "p", "t", "i", "o", "n">>
    /\ cls.exception.status = NoStatus
    /\ cls.result = TRUE

\* The error has a response.status_code, and its message and type match no
\* other rule: no term, no "http" with a retryable code, no cloud-API type
\* with 429, 500 or 503.
OnlyStatusDecides ==
    /\ cls.exception.status # NoStatus
    /\ cls.parts.tail \notin KeywordTails
    /\ ~(cls.parts.lead \in HttpLeads /\ CodeInMessage)
    /\ ~(/\ cls.exception.type = <<"H", "t", "t", "p", "E", "r", "r", "o", "r">>
         /\ cls.parts.code \in { <<"4", "2", "9">>, <<"5", "0", "0">>, <<"5", "0", "3">> })

\* C29: such an error is classified transient exactly when the status code
\* is one of 429, 500, 502, 503, 504, and permanent for every other status
\* code.
C29_ListedStatusesAreTransient ==
    (cls.pc = "done" /\ OnlyStatusDecides) =>
        (cls.result = (cls.exception.status \in {429, 500, 502, 503, 504}))

\* C29 as the code has it: such an error is classified transient exactly
\* when the status code is 429 or at least 500, and permanent for every
\* other status code.
C29_ServerStatusesAreTransient ==
    (cls.pc = "done" /\ OnlyStatusDecides) =>
        (cls.result = (cls.exception.status = 429 \/ cls.exception.status >= 500))

C29_Witness ==
    /\ cls.pc = "done"
    /\ OnlyStatusDecides
    /\ cls.exception.status = 501
    /\ cls.parts.code = <<"4", "0", "4">>
    /\ cls.result = TRUE

(***************************************************************************)
(* Claims about convert_to_jpeg (SpecConvert).                             *)
(***************************************************************************)
\* C30: on a successful conversion, for both extensions heic and heif,
\* convert_to_jpeg returns the extension jpeg and a file name in which the
\* old extension is replaced by jpeg and the rest of the name is unchanged.
C30_ConvertedNameIsJpeg ==
    (cv.pc = "done" /\ cv.result.ok /\ cv.extension \in {Heic, Heif}) =>
        /\ cv.result.extension = Jpeg
        /\ cv.result.file_name = cv.stem \o <<".">> \o Jpeg

\* C30, the part that holds: for a name with extension heic and no "heic"
\* elsewhere in it.
C30_HeicNameIsJpeg ==
    (cv.pc = "done" /\ cv.result.ok /\ cv.extension = Heic
                    /\ ~Contains(cv.stem, Heic)) =>
        /\ cv.result.extension = Jpeg
        /\ cv.result.file_name = cv.stem \o <<".">> \o Jpeg

\* C30 for the extension heif alone.
C30_HeifNameIsJpeg ==
    (cv.pc = "done" /\ cv.result.ok /\ cv.extension = Heif) =>
        cv.result.file_name = cv.stem \o <<".">> \o Jpeg


(***************************************************************************)
(* Claims about the number and the order of the calls of one pipeline      *)
(* invocation (SpecImage, SpecVideo).                                      *)
(***************************************************************************)
\* The create calls download_image has issued so far: those of the uploads
\* that have ended and those of the upload that is running.
ImageCreateCalls == im.requests + (IF im.pc = "upload" THEN up.requests ELSE 0)

C31_CreateCallsBoundedBySquare ==
    /\ ImageCreateCalls <= MAX_RETRIES * MAX_RETRIES
    /\ up.requests <= MAX_RETRIES
    /\ im.uploads <= MAX_RETRIES


\* upload is called in this step of download_image.
ImageUploadCalled == up.pc = "idle" /\ up'.pc = "enter"

\* C32: in every attempt of download_image, upload is called only after the
\* GET answered 200 and the payload was read, after the size check passed
\* and with no conversion under way, with the bytes the attempt read (or
\* their conversion), and at most once in the attempt; while upload runs the
\* attempt does nothing else.
C32_StepsAreSequential ==
    [][/\ ImageUploadCalled =>
            /\ im.pc = "store"
            /\ ~ilog.uploaded
            /\ ilog.get_status = 200
            /\ im.image_data.size = im.payload.size
            /\ im.image_data.fmt \in {im.payload.fmt, "jpeg"}
            /\ (MAX_FILE_SIZE_BYTES = 0 \/ im.payload.size <= MAX_FILE_SIZE_BYTES)
            /\ up'.data = im.image_data
       /\ up.pc \notin {"idle"} => (im'.pc = "upload" \/ im.pc = "upload")
       /\ (im.pc = "upload" /\ up'.pc \notin {"idle"}) => (im' = im /\ ilog' = ilog)]_vars

C32_Witness ==
    /\ im.pc = "upload"
    /\ im.attempt = 1
    /\ im.uploads = 2
    /\ up.pc = "create"
    /\ ilog.get_status = 200
    /\ ilog.uploaded

\* C32 for download_video: upload is called once in an attempt, as the
\* event after the whole body was written.
C32_VideoStepsAreSequential ==
    \A i \in 1..Len(vlog.events) :
        vlog.events[i].ev = "upload" =>
            /\ vlog.downloaded
            /\ vlog.routed
            /\ \A j \in 1..Len(vlog.events) : vlog.events[j].ev = "upload" => j = i


(***************************************************************************)
(* Claims about create_folder inside queue_file_downloads (SpecCreate).    *)
(***************************************************************************)
InCreateFolder(w) == wk[w].pc \in {"cf_begin", "cf_create", "cf_insert"}

DuplicateFolders ==
    \E f \in driveFolders, g \in driveFolders :
        /\ f # g
        /\ f.by = "bot"
        /\ f.name = g.name
        /\ f.parent = g.parent

\* C35: queue_file_downloads issues a remote create request for a name only
\* after a remote query for the name completed and found no folder; a lookup
\* that failed never leads to a second folder with the name of an existing
\* one.
C35_CreateOnlyOnConfirmedMiss ==
    /\ wk["w1"].pc = "cf_create" => wk["w1"].sawMiss
    /\ ~DuplicateFolders

\* C35, the second part alone.
C35_NoDuplicateAfterFailedLookup == ~DuplicateFolders

\* C35, what holds: a lookup that found the folder, in the cache or on the
\* drive, is never followed by a create request.
C35_NoCreateAfterHit ==
    wk["w1"].pc \in {"cf_begin", "cf_create", "cf_insert"} =>
        /\ ~wk["w1"].hit
        /\ wk["w1"].folder_id = NoId


\* C34: retry_with_backoff invokes the operation at least once for every
\* configured retry bound, 0 included, so whenever it returns normally the
\* value it returns is one the operation returned (that of the last
\* invocation), and a caller never takes a return for work that did not run.
C34_ReturnedValueIsFromOperation ==
    rPc = "returned" =>
        /\ Cardinality(CallsOf(rTrace)) >= 1
        /\ rTrace[Len(rTrace)].ev = "call"
        /\ rTrace[Len(rTrace)].out.kind = "ok"
        /\ rResult.val = rTrace[Len(rTrace)].out.val

\* C34, what holds: the same for every retry bound of at least one.
C34_ReturnedValueIsFromOperationWhenBounded ==
    (rPc = "returned" /\ rMax >= 1) =>
        /\ Cardinality(CallsOf(rTrace)) >= 1
        /\ rTrace[Len(rTrace)].ev = "call"
        /\ rTrace[Len(rTrace)].out.kind = "ok"
        /\ rResult.val = rTrace[Len(rTrace)].out.val


\* C36: when a maximum file size is configured (greater than zero), no video
\* whose reported content length exceeds the limit is handed to upload (for
\* images, whose actual size is compared, this is C15).
C36_NoOversizedUpload ==
    (MAX_FILE_SIZE_BYTES > 0 /\ Len(UploadCalls) > 0) =>
        ~ExceedsLimit(vlog.content_length, MAX_FILE_SIZE_BYTES)

\* C36, what holds for videos: a reported length over the limit is treated as
\* no length at all, so such a video never takes the memory route.
C36_OversizedVideoGoesToDisk ==
    (vlog.routed /\ ExceedsLimit(vlog.content_length, MAX_FILE_SIZE_BYTES)) =>
        /\ vlog.file_size = NoNumber
        /\ ~vlog.to_memory


\* C37: every handle submitted through submit_task_with_tracking and not yet
\* completed is on task_futures once the block under task_lock has run for
\* it, and the pruning in that block removes only handles that are completed.
C37_LiveHandlesTracked ==
    /\ [](Unlisted = 0)
    /\ [][sub.pc = "submitted" /\ sub'.pc = "tracked" =>
              task_futures'.live = task_futures.live + NewLive]_vars

\* C37, what holds of the block under task_lock: it keeps every handle that
\* is not completed as long as there are at most TRACK_LIMIT of them, and
\* when it prunes, no completed handle stays.
C37_LiveHandlesTrackedUpToLimit ==
    [][(sub.pc = "submitted" /\ sub'.pc = "tracked") =>
          /\ task_futures.live + NewLive <= TRACK_LIMIT =>
                task_futures'.live = task_futures.live + NewLive
          /\ task_futures.live + task_futures.done + 1 > TRACK_LIMIT =>
                task_futures'.done = 0]_vars


\* C38: for every sequence of connect, disconnect and message events, every
\* message with attachments that process_message handles, also one that
\* arrives after an earlier on_disconnect, has its queue_file_downloads task
\* accepted by the pool: no submit is refused because the pool was shut down.
C38_MessagesAcceptedAfterDisconnect ==
    \A m \in Messages : msgs[m].pc # "refused"

\* C38, what holds: as long as no shutdown of EXECUTOR was ever called, every
\* submit is accepted.
C38_MessagesAcceptedBeforeShutdown ==
    ~executorShutdown =>
        \A m \in Messages : msgs[m].pc # "refused" /\ msgs[m].dropped = 0


\* The create calls of the running download_image that returned.
ImageCreateAnswered == im.answered + (IF im.pc = "upload" THEN up.answered ELSE 0)

\* C39: within one invocation of a pipeline, once a create-file call has
\* returned, no further create call is issued and the invocation returns
\* normally (download_image; the two routes of download_video are
\* C39_VideoStoredOnce).
C39_NoCreateAfterSuccess ==
    /\ [](ImageCreateAnswered >= 1 =>
            /\ ImageCreateAnswered = 1
            /\ \/ im.pc = "upload" /\ up.pc = "returned"
               \/ im.pc = "returned" /\ im.result = "ok" /\ up.pc = "idle")
    /\ [][ImageCreateAnswered >= 1 =>
            /\ ImageCreateCalls' = ImageCreateCalls
            /\ ImageCreateAnswered' = 1
            /\ im' # im => im'.pc = "returned" /\ im'.result = "ok"]_vars

\* C39 witness: the create call of the second attempt answered after two
\* transient failures, the first attempt having ended with upload's error,
\* and download_image has returned.
C39_Witness ==
    /\ im.pc = "returned"
    /\ im.result = "ok"
    /\ im.answered = 1
    /\ im.requests = MAX_RETRIES + 3
    /\ im.uploads = 2

\* The place of the first "upload_return" in the record of the attempt
UploadReturns == {i \in 1..Len(vlog.events) : vlog.events[i].ev = "upload_return"}

\* C39 for download_video, on both routes: after upload has returned, the
\* attempt calls upload no more, only the temporary file is deleted, and the
\* invocation returns normally also when the deletion fails.
C39_VideoStoredOnce ==
    UploadReturns # {} =>
        /\ Cardinality(UploadReturns) = 1
        /\ Len(UploadCalls) = 1
        /\ \A i \in 1..Len(vlog.events) :
              vlog.events[i].ev = "upload" => \A j \in UploadReturns : i < j
        /\ \/ vd.pc = "unlink" /\ vd.upload_error = NoError /\ ~vlog.to_memory
           \/ vd.pc = "returned" /\ vd.result = "ok" /\ vlog.outcome = "ok"

\* download_video has returned although the temporary file stayed.
C39_VideoWitness ==
    /\ vd.pc = "returned"
    /\ UploadReturns # {}
    /\ unlinkFailed # {}


\* The pipeline tasks of a message that a worker thread is running
InPass(m) == msgs[m].started - msgs[m].finished

\* C40: for every pool size N >= 1, with every HTTP and storage call
\* returning or raising in the end and the pool not shut down, every task
\* submitted to the pool, the queue_file_downloads of a message and every
\* pipeline task it submits, finishes in the end; a running
\* queue_file_downloads never waits for the tasks it submitted; and no retry
\* loop goes beyond pass MAX_RETRIES.
C40_SubmittedTasksFinish ==
    /\ \A m \in Messages :
          msgs[m].pc = "queued" ~>
              /\ msgs[m].pc = "done"
              /\ msgs[m].submitted = msgs[m].attachments
              /\ msgs[m].finished = msgs[m].submitted
    /\ [](\A m \in Messages :
            /\ msgs[m].pc = "running" => ENABLED QfdSubmitNext(m)
            /\ msgs[m].invocation[1] + msgs[m].invocation[2] + msgs[m].invocation[3] = InPass(m))
    /\ [][\A m \in Messages :
            msgs'[m].invocation # msgs[m].invocation =>
                \/ msgs'[m].started = msgs[m].started + 1
                \/ msgs'[m].finished = msgs[m].finished + 1
                \/ \E a \in 1..(MAX_RETRIES - 1) :
                      /\ msgs'[m].invocation[a] = msgs[m].invocation[a] - 1
                      /\ msgs'[m].invocation[a + 1] = msgs[m].invocation[a + 1] + 1]_vars

\* C40 witness: a pool of one worker thread; the tasks of the first message
\* are all finished, a pipeline task of the second is in its last pass and
\* the other one waits for the worker.
C40_Witness ==
    /\ workers = 1
    /\ msgs[1].pc = "done"
    /\ msgs[1].finished = MaxAttachments
    /\ msgs[2].pc = "done"
    /\ msgs[2].invocation[MAX_RETRIES] = 1
    /\ msgs[2].started < msgs[2].submitted


\* C40, the progress part alone.
C40_QueuedTasksFinish ==
    \A m \in Messages :
        msgs[m].pc = "queued" ~> (msgs[m].pc = "done" /\ InPass(m) = 0
                                    /\ msgs[m].started = msgs[m].submitted)

====
